---- MODULE Spec2Model ----
(***************************************************************************)
(* Model of the personalised recommendation workflow                       *)
(* (src/workflow/recommendation_workflow.py), its routing, POI, review and *)
(* lodging clients, and the agent/session glue that starts it.             *)
(*                                                                         *)
(* Text is modelled as a sequence of character tokens.  SANY accepts only  *)
(* ASCII inside strings, so every Chinese character is written as one      *)
(* token (its pinyin; homophones get distinct tokens), e.g. "zhu" is 住,   *)
(* "su" is 宿 and <<"zhu","su">> is 住宿.  Substring tests (Python's `in`) *)
(* are computed on these sequences.                                        *)
(* Python dicts are functions with a partial domain; dict.get is Get.      *)
(***************************************************************************)
EXTENDS Integers, Sequences, FiniteSets, TLC

VARIABLES
    pc,                    \* position of the running workflow
    user_query,            \* RecommendationState["user_query"]
    city,                  \* RecommendationState["city"]
    travel_interests,      \* RecommendationState["travel_interests"]
    transport_preference,  \* RecommendationState["transport_preference"]
    travel_pace,           \* RecommendationState["travel_pace"]
    budget_level,          \* RecommendationState["budget_level"]
    present,               \* the NotRequired keys that have been set
    poi_results,           \* RecommendationState["poi_results"]
    review_results,        \* RecommendationState["review_results"]
    hotel_results,         \* RecommendationState["hotel_results"]
    route_info,            \* RecommendationState["route_info"]
    final_recommendation,  \* RecommendationState["final_recommendation"]
    gate,                  \* what _should_search_hotels returned in this run
    history,               \* the nodes entered in this run, in order
    calls,                 \* the external calls issued in this run, in order
    returned,              \* what run returned (<<>> until it returns)
    raised,                \* the exception that left run ("" when none)
    via,                   \* who started the run: "direct" or a session id
    thread_id_counter,     \* SessionManager.thread_id_counter
    session_preferences,   \* SessionManager.session_preferences
    temp_runtime_state,    \* TempRuntime.state handed to the workflow tool
    heap,                  \* the preference dicts, by object identity
    agent_state,           \* the agent's own state (TravelContext) of the round
    round,                 \* the session whose get_response round is open, or ""
    suspended              \* the invocation of run that is not executing now

state_vars == <<user_query, city, travel_interests, transport_preference,
                travel_pace, budget_level, present, poi_results, review_results,
                hotel_results, route_info, final_recommendation>>
run_vars == <<pc, gate, history, calls, returned, raised, via>>
agent_vars == <<thread_id_counter, session_preferences, temp_runtime_state,
                heap, agent_state, round>>
vars == <<state_vars, run_vars, agent_vars, suspended>>

----------------------------------------------------------------------------
(* Python helpers *)

\* dict.get(k, default)
Get(d, k, def) == IF k \in DOMAIN d THEN d[k] ELSE def

\* s[:n]
Take(s, n) == SubSeq(s, 1, IF Len(s) < n THEN Len(s) ELSE n)

\* kw in text, on character sequences (the empty string is in every string)
Contains(text, kw) ==
    \E i \in 0..(Len(text) - Len(kw)) :
        \A j \in 1..Len(kw) : text[i + j] = kw[j]

\* any(kw in text for kw in kws)
ContainsAny(text, kws) == \E kw \in kws : Contains(text, kw)

\* str.lower(): only cased characters change
LowerChar(c) ==
    CASE c = "D" -> "d"
      [] c = "A" -> "a"
      [] c = "Y" -> "y"
      [] c = "H" -> "h"
      [] OTHER -> c

Lower(text) == [i \in 1..Len(text) |-> LowerChar(text[i])]

\* a token of an output text: a kind, string arguments and a number
Tok(k, a, n) == [k |-> k, a |-> a, n |-> n]

\* a truth test that takes every non-empty string for a value
TruthyNonEmpty(v) == v # ""

\* the truthiness of a JSON value kept as a string ("" and "[]" are falsy)
Truthy(v) == v # "" /\ v # "[]"

----------------------------------------------------------------------------
(* The hotel-search gate *)

\* 酒店 住宿 住 宾馆 饭店 旅馆 民宿 订房
hotel_keywords ==
    { <<"jiu", "dian">>, <<"zhu", "su">>, <<"zhu">>, <<"bin", "guan">>,
      <<"fan_meal", "dian">>, <<"lv", "guan">>, <<"min", "su">>,
      <<"ding", "fang">> }

\* 行程 规划 安排 旅游 游玩 旅行
travel_keywords ==
    { <<"xing", "cheng">>, <<"gui", "hua">>, <<"an", "pai">>, <<"lv", "you">>,
      <<"you", "wan">>, <<"lv", "xing">> }

\* 不住 不需要住宿 一日游 当天往返
exclude_keywords ==
    { <<"bu", "zhu">>, <<"bu", "xu", "yao", "zhu", "su">>, <<"yi", "ri", "you">>,
      <<"dang", "tian", "wang", "fan_return">> }

\* a gate that lets an exclusion phrase win over a lodging keyword
ShouldSearchHotelsExcludeFirst(query) ==
    LET q == Lower(query) IN
    IF ContainsAny(q, exclude_keywords) THEN "skip_hotels"
    ELSE IF ContainsAny(q, travel_keywords) \/ ContainsAny(q, hotel_keywords)
         THEN "search_hotels" ELSE "skip_hotels"

\* a gate that forgets the exclusion test
ShouldSearchHotelsNoExclusion(query) ==
    LET q == Lower(query) IN
    IF ContainsAny(q, travel_keywords) \/ ContainsAny(q, hotel_keywords)
    THEN "search_hotels" ELSE "skip_hotels"

\* a gate that only looks at trip-planning keywords
ShouldSearchHotelsTravelOnly(query) ==
    LET q == Lower(query) IN
    IF ContainsAny(q, travel_keywords) /\ ~ContainsAny(q, exclude_keywords)
    THEN "search_hotels" ELSE "skip_hotels"

ShouldSearchHotels(query) ==
    LET q == Lower(query) IN
    IF ContainsAny(q, travel_keywords) /\ ~ContainsAny(q, exclude_keywords)
    THEN "search_hotels"
    ELSE IF ContainsAny(q, hotel_keywords) THEN "search_hotels"
    ELSE "skip_hotels"

----------------------------------------------------------------------------
(* _build_graph: the edges of the StateGraph *)

\* a graph whose search_hotels node leads back to query_reviews
\* a graph whose edge out of plan_route leads to search_pois again
EdgeSearchAgain(node) ==
    CASE node = "search_pois" -> "query_reviews"
      [] node = "search_hotels" -> "plan_route"
      [] node = "plan_route" -> "search_pois"
      [] node = "generate_recommendation" -> "END"

EdgeHotelsBack(node) ==
    CASE node = "search_pois" -> "query_reviews"
      [] node = "search_hotels" -> "query_reviews"
      [] node = "plan_route" -> "generate_recommendation"
      [] node = "generate_recommendation" -> "END"

\* add_edge(node, successor)
Edge(node) ==
    CASE node = "search_pois" -> "query_reviews"
      [] node = "search_hotels" -> "plan_route"
      [] node = "plan_route" -> "generate_recommendation"
      [] node = "generate_recommendation" -> "END"

\* a graph whose two branches both lead to search_hotels
ConditionalEdgeAlwaysSearch(decision) == "search_hotels"

\* a graph whose skip branch ends the run
ConditionalEdgeSkipEnds(decision) ==
    IF decision = "search_hotels" THEN "search_hotels" ELSE "END"

\* add_conditional_edges("query_reviews", _should_search_hotels, {...})
ConditionalEdge(decision) ==
    IF decision = "search_hotels" THEN "search_hotels" ELSE "plan_route"

----------------------------------------------------------------------------
(* The Gaode client: json.loads(gaode_get_json_str(...)) *)

\* One HTTP exchange as the environment decides it:
\*   [kind |-> "nokey"]       GAODE_API_KEY is not configured
\*   [kind |-> "exception"]   requests.get raised (timeout, connection error)
\*   [kind |-> "http", code |-> c, json |-> b, data |-> d]  a response arrived
GaodeData(h) ==
    IF h.kind = "nokey" THEN [error |-> "no_api_key"]
    ELSE IF h.kind = "exception" THEN [error |-> "request_exception"]
    ELSE LET data == IF h.json THEN h.data ELSE [error |-> "not_json"]
         IN  IF h.code # 200 THEN [error |-> "http_failed"] ELSE data

\* isinstance(x, dict): a non-dict JSON value is written [nondict |-> kind]
IsDict(x) == "nondict" \notin DOMAIN x

Http(data) == [kind |-> "http", code |-> 200, json |-> TRUE, data |-> data]

----------------------------------------------------------------------------
(* Node 1: _search_pois_node *)

\* 历史文化 自然风光 美食体验 购物娱乐 亲子游玩 艺术文艺
interest_keywords_map ==
    [ lishiwenhua    |-> <<"bowuguan", "guji", "wenhuajiequ">>,
      ziranfengguang |-> <<"gongyuan", "fengjingqu", "shanshui">>,
      meishitiyan    |-> <<"meishi", "canting", "tesexiaochi">>,
      gouwuyule      |-> <<"shangchang", "gouwuzhongxin", "yulechangsuo">>,
      qinziyouwan    |-> <<"youleyuan", "dongwuyuan", "ertongleyuan">>,
      yishuwenyi     |-> <<"meishuguan", "yishuguan", "juyuan">> ]

\* 景点 美食
default_keywords == <<"jingdian", "meishi">>

RECURSIVE CollectKeywords(_)
CollectKeywords(interests) ==
    IF interests = <<>> THEN <<>>
    ELSE (IF Head(interests) \in DOMAIN interest_keywords_map
          THEN interest_keywords_map[Head(interests)] ELSE <<>>)
         \o CollectKeywords(Tail(interests))

\* a search that never falls back to the default pair
KeywordsToSearchNoDefault(interests) == CollectKeywords(interests)

\* a search that always adds the default pair in front
KeywordsToSearchDefaultFirst(interests) ==
    default_keywords \o CollectKeywords(interests)

KeywordsToSearch(interests) ==
    LET kws == CollectKeywords(interests)
    IN  IF kws = <<>> THEN default_keywords ELSE kws

MaxKeywordCalls == 3
MaxPoisPerKeyword == 3

\* a search that goes through its keywords a second time
SearchedKeywordsTwice(interests) ==
    Take(KeywordsToSearch(interests), MaxKeywordCalls)
    \o Take(KeywordsToSearch(interests), MaxKeywordCalls)

\* a search over the last three collected keywords
SearchedKeywordsLast(interests) ==
    LET kws == KeywordsToSearch(interests)
    IN  SubSeq(kws, IF Len(kws) > MaxKeywordCalls THEN Len(kws) - MaxKeywordCalls + 1 ELSE 1,
               Len(kws))

\* a loop over every collected keyword
SearchedKeywordsAll(interests) == KeywordsToSearch(interests)

\* keywords_to_search[:3]
SearchedKeywords(interests) == Take(KeywordsToSearch(interests), MaxKeywordCalls)

\* a node that takes every result of a call
PoisOfCallAll(data) ==
    IF ~IsDict(data) THEN <<>>
    ELSE IF Get(data, "status", "") = "1" /\ Get(data, "pois", <<>>) # <<>>
         THEN data["pois"]
         ELSE <<>>

\* what one keyword's call adds to all_pois; every exception is swallowed
PoisOfCall(data) ==
    IF ~IsDict(data) THEN <<>>                       \* data.get raises, caught
    ELSE IF Get(data, "status", "") = "1" /\ Get(data, "pois", <<>>) # <<>>
         THEN Take(data["pois"], MaxPoisPerKeyword)
         ELSE <<>>

\* a loop that ends at the first call that adds nothing
RECURSIVE AllPoisUntilFailure(_, _)
AllPoisUntilFailure(resp, n) ==
    IF n = 0 THEN <<>>
    ELSE LET before == AllPoisUntilFailure(resp, n - 1)
         IN  IF \E i \in 1..(n - 1) : PoisOfCall(GaodeData(resp[i])) = <<>>
             THEN before
             ELSE before \o PoisOfCall(GaodeData(resp[n]))

RECURSIVE AllPois(_, _)
AllPois(resp, n) ==
    IF n = 0 THEN <<>>
    ELSE AllPois(resp, n - 1) \o PoisOfCall(GaodeData(resp[n]))

\* one external call: the capability, its subject, its position and its arguments
Call(api, key, n, args) == [api |-> api, key |-> key, n |-> n, args |-> args]

\* with_answers: the log of calls also keeps the exchange of each POI call
SearchPoisAnswered(PoiResp, with_answers) ==
    /\ pc = "search_pois"
    /\ LET kws == SearchedKeywords(travel_interests)
       IN  \E resp \in [1..Len(kws) -> PoiResp] :
             /\ poi_results' = AllPois(resp, Len(kws))
             /\ calls' = calls \o [i \in 1..Len(kws) |->
                                      Call("poi_search", kws[i], i,
                                           IF with_answers THEN <<city, resp[i]>>
                                           ELSE <<city>>)]
    /\ present' = present \cup {"poi_results"}
    /\ history' = Append(history, "search_pois")
    /\ pc' = Edge("search_pois")
    /\ UNCHANGED <<user_query, city, travel_interests, transport_preference,
                   travel_pace, budget_level, review_results, hotel_results,
                   route_info, final_recommendation, gate, returned, raised, via>>
    /\ UNCHANGED <<agent_vars, suspended>>

SearchPoisNode(PoiResp) == SearchPoisAnswered(PoiResp, FALSE)

----------------------------------------------------------------------------
(* tools/web_search_tools.py: tavily_search_reviews *)

MaxContentLen == 300

\* one formatted search result: title, content cut at 300 characters, url
FormatResult(r, i) ==
    <<"nl", "idx">> \o Get(r, "title", <<"wu", "biao", "ti">>)
    \o (LET content == Get(r, "content", <<>>)
            cut == IF Len(content) > MaxContentLen
                   THEN Take(content, MaxContentLen) \o <<"...">> ELSE content
        IN  IF cut # <<>> THEN <<"nl", "comment_mark">> \o cut ELSE <<>>)
    \o (IF Get(r, "url", <<>>) # <<>> THEN <<"nl", "source_mark">> \o r.url ELSE <<>>)

RECURSIVE FormatResults(_, _)
FormatResults(results, n) ==
    IF n = 0 THEN <<>>
    ELSE FormatResults(results, n - 1) \o FormatResult(results[n], n)

\* The search as the environment decides it:
\*   [kind |-> "nokey"]                 TAVILY_API_KEY is not configured
\*   [kind |-> "error"]                 creating or invoking the tool raised
\*   [kind |-> "results", items |-> s]  the tool returned the list s
\* The value is the text the function returns; it never raises.
TavilySearchReviews(query, location, t) ==
    IF t.kind = "nokey" THEN <<"sorry", "search_unavailable_no_api_key">>
    ELSE IF t.kind = "error" THEN <<"sorry", "search_error">>
    ELSE IF t.items = <<>>
         THEN <<"not_found_about">> \o query \o <<"try_other_words">>
         ELSE <<"found_n_about">> \o query \o <<"colon", "nl">>
              \o FormatResults(t.items, Len(t.items))

----------------------------------------------------------------------------
(* Node 2: _query_reviews_node *)

MaxReviewPois == 5

\* 攻略 行程安排 路线规划 第一天 第二天 第三天 Day1 Day2
filter_keywords ==
    { <<"gong", "lve">>, <<"xing", "cheng", "an", "pai">>,
      <<"lu", "xian", "gui", "hua">>, <<"di_ord", "yi", "tian">>,
      <<"di_ord", "er", "tian">>, <<"di_ord", "san", "tian">>,
      <<"D", "a", "y", "1">>, <<"D", "a", "y", "2">> }

IsSpace(c) == c \in {" ", "nl"}

\* len(text.strip()) > 0
StripNonEmpty(text) == \E i \in 1..Len(text) : ~IsSpace(text[i])

\* f"{city} {poi_name} 怎么样 评价"
ReviewQuery(c, poi_name) ==
    (IF c = "" THEN <<>> ELSE <<c>>)
    \o <<" ", poi_name, " ", "zen", "me", "yang", " ", "ping", "jia">>

\* a node that stores whatever text the search returns
ReviewOfCallUnfiltered(c, poi_name, t) ==
    IF t.kind = "import_error" THEN [stored |-> FALSE, text |-> <<>>]
    ELSE LET review_text == TavilySearchReviews(ReviewQuery(c, poi_name), c, t)
         IN  IF review_text # <<>> /\ StripNonEmpty(review_text)
             THEN [stored |-> TRUE, text |-> review_text]
             ELSE [stored |-> FALSE, text |-> <<>>]

\* The lookup of one POI as the environment decides it: [kind |-> "import_error"]
\* (the import inside the try block raises) or one of the search outcomes above.
\* The value is [stored |-> b, text |-> t]: whether review_results gets an entry.
ReviewOfCall(c, poi_name, t) ==
    IF t.kind = "import_error" THEN [stored |-> FALSE, text |-> <<>>]
    ELSE LET review_text == TavilySearchReviews(ReviewQuery(c, poi_name), c, t)
         IN  IF review_text # <<>> /\ StripNonEmpty(review_text)
                /\ ~ContainsAny(review_text, filter_keywords)
             THEN [stored |-> TRUE, text |-> review_text]
             ELSE [stored |-> FALSE, text |-> <<>>]

\* a loop that looks at one POI more
ReviewedPoisSix(pois) == Take(pois, MaxReviewPois + 1)

\* a loop that looks at every POI
ReviewedPoisAll(pois) == pois

\* pois[:5]
ReviewedPois(pois) == Take(pois, MaxReviewPois)

\* a dict that keeps the first value written under a key
PutIfAbsent(d, k, v) ==
    [x \in DOMAIN d \cup {k} |-> IF x \in DOMAIN d THEN d[x] ELSE v]

Put(d, k, v) == [x \in DOMAIN d \cup {k} |-> IF x = k THEN v ELSE d[x]]

\* The loop over pois[:5], entry by entry, from a loop state
\* [rr |-> review_results so far, cs |-> calls so far, exc |-> exception or ""].
\* poi.get on an entry that is no dict raises outside the try block.
RECURSIVE ReviewLoop(_, _, _, _)
ReviewLoop(pois, c, resp, n) ==
    IF n = 0 THEN [rr |-> <<>>, cs |-> <<>>, exc |-> ""]
    ELSE LET before == ReviewLoop(pois, c, resp, n - 1)
             poi == pois[n]
         IN  IF before.exc # "" THEN before
             ELSE IF ~IsDict(poi) THEN [before EXCEPT !.exc = "AttributeError"]
             ELSE LET poi_name == Get(poi, "name", "")
                  IN  IF ~Truthy(poi_name) THEN before
                      ELSE LET r == ReviewOfCall(c, poi_name, resp[n])
                           IN  [rr |-> IF r.stored THEN Put(before.rr, poi_name, r.text)
                                       ELSE before.rr,
                                cs |-> Append(before.cs, Call("review_search", poi_name, n, <<c>>)),
                                exc |-> ""]

\* with_answers: the log of calls also keeps the outcome of each lookup
QueryReviewsAnswered(RevResp, with_answers) ==
    /\ pc = "query_reviews"
    /\ LET pois == ReviewedPois(IF "poi_results" \in present THEN poi_results ELSE <<>>)
       IN  \E resp \in [1..Len(pois) -> RevResp] :
             LET out == ReviewLoop(pois, city, resp, Len(pois))
             IN  /\ calls' = calls \o
                       (IF with_answers
                        THEN [i \in 1..Len(out.cs) |->
                                [out.cs[i] EXCEPT !.args = @ \o <<resp[out.cs[i].n]>>]]
                        ELSE out.cs)
                 /\ IF out.exc = ""
                    THEN /\ review_results' = out.rr
                         /\ present' = present \cup {"review_results"}
                         /\ pc' = "should_search_hotels"
                         /\ raised' = raised
                    ELSE /\ UNCHANGED <<review_results, present>>
                         /\ pc' = "raised"
                         /\ raised' = out.exc
    /\ history' = Append(history, "query_reviews")
    /\ UNCHANGED <<user_query, city, travel_interests, transport_preference,
                   travel_pace, budget_level, poi_results, hotel_results,
                   route_info, final_recommendation, gate, returned, via>>
    /\ UNCHANGED <<agent_vars, suspended>>

QueryReviewsNode(RevResp) == QueryReviewsAnswered(RevResp, FALSE)

\* The conditional edge after query_reviews
ShouldSearchHotelsEdge ==
    /\ pc = "should_search_hotels"
    /\ gate' = ShouldSearchHotels(user_query)
    /\ pc' = ConditionalEdge(gate')
    /\ UNCHANGED <<state_vars, history, calls, returned, raised, via>>
    /\ UNCHANGED <<agent_vars, suspended>>

----------------------------------------------------------------------------
(* JSON scalars are kept as strings; these are the ones float() accepts *)

NumberTokens == {"0", "4", "5", "45", "90", "600", "1500"}

IsNumber(v) == v \in NumberTokens

\* int(float(v)) for a v that float() accepts
IntOf(v) ==
    CASE v = "0" -> 0 [] v = "4" -> 4 [] v = "5" -> 5 [] v = "45" -> 45
      [] v = "90" -> 90 [] v = "600" -> 600 [] v = "1500" -> 1500

----------------------------------------------------------------------------
(* client/aigohotel_client.py and node 3: _search_hotels_node *)

\* One MCP exchange as the environment decides it:
\*   [kind |-> "exception"]  requests.post raised (timeout, connection, other)
\*   [kind |-> "http", code |-> c, json |-> b, envelope |-> e, text_json |-> b,
\*    hotels |-> v]   e is "text" or the defect of the MCP envelope
\* The value is json.loads of the string the client returns.
AigohotelData(h) ==
    IF h.kind = "exception" THEN [error |-> "request_exception"]
    ELSE IF h.code # 200 THEN [error |-> "http_error"]
    ELSE IF ~h.json THEN [error |-> "not_json"]
    ELSE IF h.envelope # "text" THEN [error |-> h.envelope]
    ELSE IF ~h.text_json THEN [error |-> "bad_hotel_json"]
    ELSE h.hotels

\* a band table with the economy and luxury bands swapped
StarRatingsSwapped(budget) ==
    CASE budget = "jingji" -> <<"4.5", "5.0">>
      [] budget = "shushi" -> <<"3.0", "4.5">>
      [] budget = "haohua" -> <<"0.0", "3.0">>
      [] OTHER -> <<>>

\* 经济 舒适 豪华; <<>> is None
StarRatings(budget) ==
    CASE budget = "jingji" -> <<"0.0", "3.0">>
      [] budget = "shushi" -> <<"3.0", "4.5">>
      [] budget = "haohua" -> <<"4.5", "5.0">>
      [] OTHER -> <<>>

MaxHotels == 5

\* one hotel's lines; [ok |-> FALSE] when formatting it raises
HotelEntry(hotel, idx) ==
    IF ~IsDict(hotel) THEN [ok |-> FALSE, text |-> <<>>]
    ELSE LET star_rating == Get(hotel, "starRating", "0")
             price_info == Get(hotel, "price", [lowestPrice |-> "0"])
             price == IF IsDict(price_info) THEN Get(price_info, "lowestPrice", "0") ELSE "0"
             currency == IF IsDict(price_info) THEN Get(price_info, "currency", "CNY") ELSE "CNY"
         IN  IF ~IsNumber(star_rating) \/ ~IsNumber(price)
             THEN [ok |-> FALSE, text |-> <<>>]
             ELSE [ok |-> TRUE,
                   text |-> <<Tok("hotel_name", <<Get(hotel, "name", "unknown_hotel")>>, idx)>>
                        \o (IF IntOf(star_rating) > 0
                            THEN <<Tok("hotel_stars", <<star_rating>>, 0)>> ELSE <<>>)
                        \o (IF IntOf(price) > 0
                            THEN <<Tok("hotel_price", <<currency, price>>, 0)>>
                            ELSE <<Tok("nl", <<>>, 0)>>)
                        \o <<Tok("hotel_address", <<Get(hotel, "address", "unknown_address")>>, 0)>>]

RECURSIVE HotelEntries(_, _)
HotelEntries(hotels, n) ==
    IF n = 0 THEN [ok |-> TRUE, text |-> <<>>]
    ELSE LET before == HotelEntries(hotels, n - 1)
             this == HotelEntry(hotels[n], n)
         IN  IF before.ok /\ this.ok
             THEN [ok |-> TRUE, text |-> before.text \o this.text]
             ELSE [ok |-> FALSE, text |-> <<>>]

\* a node that leaves hotel_results empty when the lookup finds no hotel
HotelResultsOfNoMarker(data, c) ==
    IF ~IsDict(data) THEN <<>>
    ELSE IF "error" \notin DOMAIN data /\ "hotelInformationList" \in DOMAIN data
            /\ data.hotelInformationList # <<>>
         THEN <<Tok("hotel_header", <<>>, Len(data.hotelInformationList))>>
         ELSE <<>>

\* the value the node stores in hotel_results; <<>> is the empty string
HotelResultsOf(data, c) ==
    IF ~IsDict(data) THEN <<>>
    ELSE IF "error" \notin DOMAIN data /\ "hotelInformationList" \in DOMAIN data
         THEN LET hotels == data.hotelInformationList
              IN  IF hotels # <<>>
                  THEN LET shown == Take(hotels, MaxHotels)
                           body == HotelEntries(shown, Len(shown))
                       IN  IF body.ok
                           THEN <<Tok("hotel_header", <<>>, Len(hotels))>> \o body.text
                           ELSE <<>>
                  ELSE <<Tok("no_hotel_found_in", <<c>>, 0)>>
         ELSE <<>>

SearchHotelsNode(HotelResp) ==
    /\ pc = "search_hotels"
    /\ \E h \in HotelResp :
         hotel_results' = HotelResultsOf(AigohotelData(h), city)
    /\ calls' = Append(calls, Call("hotel_search", city, 1,
                                   <<"nights_1", "size_5">> \o StarRatings(budget_level)))
    /\ present' = present \cup {"hotel_results"}
    /\ history' = Append(history, "search_hotels")
    /\ pc' = Edge("search_hotels")
    /\ UNCHANGED <<user_query, city, travel_interests, transport_preference,
                   travel_pace, budget_level, poi_results, review_results,
                   route_info, final_recommendation, gate, returned, raised, via>>
    /\ UNCHANGED <<agent_vars, suspended>>

----------------------------------------------------------------------------
(* client/route_planning_client.py: the value each function returns *)

Failure(error) == [success |-> FALSE, error |-> error]

\* the checks the three functions share; "" when the payload passes them.
\* A payload that is no dict makes data.get raise inside the try block.
RouteDefect(data) ==
    IF ~IsDict(data) THEN "AttributeError"
    ELSE IF "error" \in DOMAIN data THEN data.error
    ELSE IF Get(data, "status", "") # "1" THEN Get(data, "info", "api_status_abnormal")
    ELSE ""

\* the JSON value [] where a dict or a list of dicts is expected
EmptyList == [nondict |-> "empty_list"]

\* bool(x) is False for a missing value, {} and []
Falsy(x) == DOMAIN x = {} \/ x = EmptyList

\* the list under data["route"][key]; [exc |-> e] when reaching it raises
RouteList(data, key) ==
    LET route == Get(data, "route", <<>>)
    IN  IF Falsy(route) THEN [exc |-> "", list |-> <<>>]
        ELSE IF ~IsDict(route) THEN [exc |-> "AttributeError", list |-> <<>>]
        ELSE [exc |-> "", list |-> Get(route, key, <<>>)]

plan_walking_route(h) ==
    LET data == GaodeData(h)
        found == RouteList(data, "paths")
        paths == found.list
    IN  IF RouteDefect(data) # "" THEN Failure(RouteDefect(data))
        ELSE IF found.exc # "" THEN Failure(found.exc)
        ELSE IF paths # <<>> /\ ~IsDict(paths[1]) THEN Failure("AttributeError")
        ELSE IF paths # <<>>
             THEN LET path == paths[1]
                      distance == Get(path, "distance", "0")
                      duration == Get(path, "duration", "0")
                  IN  IF ~IsNumber(distance) \/ ~IsNumber(duration)
                      THEN Failure("ValueError")
                      ELSE [success |-> TRUE, distance |-> IntOf(distance),
                            duration |-> IntOf(duration),
                            steps |-> Get(path, "steps", <<>>)]
             ELSE Failure("no_route_data")

MaxTransitPlans == 2

plan_transit_route(h) ==
    LET data == GaodeData(h)
        found == RouteList(data, "transits")
        transits == found.list
    IN  IF RouteDefect(data) # "" THEN Failure(RouteDefect(data))
        ELSE IF found.exc # "" THEN Failure(found.exc)
        ELSE IF transits # <<>>
             THEN [success |-> TRUE, transits |-> Take(transits, MaxTransitPlans)]
             ELSE Failure("no_transit_route")

plan_driving_route(h) ==
    LET data == GaodeData(h)
        found == RouteList(data, "paths")
        paths == found.list
    IN  IF RouteDefect(data) # "" THEN Failure(RouteDefect(data))
        ELSE IF found.exc # "" THEN Failure(found.exc)
        ELSE IF paths # <<>> /\ ~IsDict(paths[1]) THEN Failure("AttributeError")
        ELSE IF paths # <<>>
             THEN LET path == paths[1]
                      distance == Get(path, "distance", "0")
                      duration == Get(path, "duration", "0")
                      tolls == Get(path, "tolls", "0")
                      lights == Get(path, "traffic_lights", "0")
                  IN  IF ~IsNumber(distance) \/ ~IsNumber(duration)
                         \/ ~IsNumber(tolls) \/ ~IsNumber(lights)
                      THEN Failure("ValueError")
                      ELSE [success |-> TRUE, distance |-> IntOf(distance),
                            duration |-> IntOf(duration), tolls |-> IntOf(tolls),
                            traffic_lights |-> IntOf(lights),
                            steps |-> Get(path, "steps", <<>>)]
             ELSE Failure("no_driving_route")

----------------------------------------------------------------------------
(* The text one leg adds after a routing call.  [exc |-> e, text |-> t]:     *)
(* e names the exception that leaves the loop, "" when there is none.       *)

Text(t) == [exc |-> "", text |-> t]
Raise(e) == [exc |-> e, text |-> <<>>]

\* a.text ++ b.text, unless one of them raised
Then(a, b) == IF a.exc # "" THEN a ELSE IF b.exc # "" THEN b
              ELSE Text(a.text \o b.text)

\* a step line: step.get(...) and int(float(step.get("distance", 0)))
StepLine(step, idx, with_road) ==
    IF ~IsDict(step) THEN Raise("AttributeError")
    ELSE IF ~IsNumber(Get(step, "distance", "0")) THEN Raise("TypeError")
    ELSE LET road == IF with_road THEN Get(step, "road", "") ELSE ""
         IN  Text(<<Tok(IF Truthy(road) THEN "step_along_road" ELSE "step",
                        <<Get(step, "instruction", "")>>
                        \o (IF Truthy(road) THEN <<road>> ELSE <<>>),
                        IntOf(Get(step, "distance", "0")))>>)

RECURSIVE StepLines(_, _, _)
StepLines(steps, n, with_road) ==
    IF n = 0 THEN Text(<<>>)
    ELSE Then(StepLines(steps, n - 1, with_road), StepLine(steps[n], n, with_road))

WalkingLegText(result) ==
    IF result.success
    THEN Then(Text(<<Tok("walk_distance_m", <<>>, result.distance),
                     Tok("walk_minutes", <<>>, result.duration \div 60)>>),
              IF result.steps # <<>>
              THEN Then(Text(<<Tok("steps_header", <<>>, 0)>>),
                        StepLines(result.steps, Len(result.steps), FALSE))
              ELSE Text(<<>>))
    ELSE Text(<<Tok("route_query_failed", <<Get(result, "error", "unknown_error")>>, 0)>>)

MaxDrivingSteps == 10

DrivingLegText(result) ==
    IF result.success
    THEN Then(Text(<<Tok("drive_distance_tenth_km", <<>>, (result.distance + 50) \div 100),
                     Tok("drive_minutes", <<>>, result.duration \div 60)>>
                   \o (IF result.tolls > 0
                       THEN <<Tok("tolls", <<>>, result.tolls)>> ELSE <<>>)
                   \o <<Tok("traffic_lights", <<>>, result.traffic_lights)>>),
              IF result.steps # <<>> /\ Len(result.steps) <= MaxDrivingSteps
              THEN Then(Text(<<Tok("main_route_header", <<>>, 0)>>),
                        StepLines(result.steps, Len(result.steps), TRUE))
              ELSE Text(<<>>))
    ELSE Text(<<Tok("route_query_failed", <<Get(result, "error", "unknown_error")>>, 0)>>)

\* 地铁
subway_chars == <<"di", "tie">>

BuslineLines(busline, seg_idx) ==
    IF ~IsDict(busline) THEN Raise("AttributeError")
    ELSE IF ~IsDict(Get(busline, "departure_stop", <<>>))
            \/ ~IsDict(Get(busline, "arrival_stop", <<>>)) THEN Raise("AttributeError")
    ELSE IF ~IsNumber(Get(busline, "via_num", "0")) THEN Raise("TypeError")
    ELSE Text(<<Tok(IF Contains(Get(busline, "type", <<>>), subway_chars)
                    THEN "take_subway" ELSE "take_bus",
                    <<Get(busline, "name", "")>>, seg_idx),
                Tok("board_at", <<Get(Get(busline, "departure_stop", <<>>), "name", "")>>, 0),
                Tok("alight_at", <<Get(Get(busline, "arrival_stop", <<>>), "name", "")>>,
                    IntOf(Get(busline, "via_num", "0")))>>)

RECURSIVE BuslinesLines(_, _, _)
BuslinesLines(buslines, n, seg_idx) ==
    IF n = 0 THEN Text(<<>>)
    ELSE Then(BuslinesLines(buslines, n - 1, seg_idx), BuslineLines(buslines[n], seg_idx))

SegmentLines(segment, seg_idx) ==
    IF ~IsDict(segment) THEN Raise("AttributeError")
    ELSE LET walking == Get(segment, "walking", <<>>)
             bus == Get(segment, "bus", <<>>)
             walk_part ==
                 IF Falsy(walking) THEN Text(<<>>)
                 ELSE IF ~IsDict(walking) THEN Raise("AttributeError")
                 ELSE IF ~IsNumber(Get(walking, "distance", "0")) THEN Raise("TypeError")
                 ELSE IF IntOf(Get(walking, "distance", "0")) > 0
                      THEN Text(<<Tok("segment_walk", <<>>,
                                      IntOf(Get(walking, "distance", "0")))>>)
                      ELSE Text(<<>>)
             bus_part ==
                 IF Falsy(bus) THEN Text(<<>>)
                 ELSE IF ~IsDict(bus) THEN Raise("AttributeError")
                 ELSE BuslinesLines(Get(bus, "buslines", <<>>),
                                    Len(Get(bus, "buslines", <<>>)), seg_idx)
         IN  Then(walk_part, bus_part)

RECURSIVE SegmentsLines(_, _)
SegmentsLines(segments, n) ==
    IF n = 0 THEN Text(<<>>)
    ELSE Then(SegmentsLines(segments, n - 1), SegmentLines(segments[n], n))

\* one transit plan: int(float(...)) of cost, duration and walking_distance
TransitPlanText(transit, plan_idx) ==
    IF ~IsDict(transit) THEN Raise("AttributeError")
    ELSE IF ~IsNumber(Get(transit, "cost", "0"))
            \/ ~IsNumber(Get(transit, "duration", "0"))
            \/ ~IsNumber(Get(transit, "walking_distance", "0")) THEN Raise("TypeError")
    ELSE Then(Then(Text(<<Tok("plan", <<>>, plan_idx),
                          Tok("plan_minutes", <<>>, IntOf(Get(transit, "duration", "0")) \div 60),
                          Tok("plan_cost", <<>>, IntOf(Get(transit, "cost", "0"))),
                          Tok("plan_walk_m", <<>>, IntOf(Get(transit, "walking_distance", "0")))>>),
                   SegmentsLines(Get(transit, "segments", <<>>),
                                 Len(Get(transit, "segments", <<>>)))),
              Text(<<Tok("nl", <<>>, 0)>>))

RECURSIVE TransitPlansText(_, _)
TransitPlansText(transits, n) ==
    IF n = 0 THEN Text(<<>>)
    ELSE Then(TransitPlansText(transits, n - 1), TransitPlanText(transits[n], n))

\* a loop body that wraps the plan formatting in try/except
TransitLegTextGuarded(result) ==
    IF result.success
    THEN LET t == TransitPlansText(Get(result, "transits", <<>>),
                                   Len(Get(result, "transits", <<>>)))
         IN  IF t.exc # "" THEN Text(<<Tok("route_query_failed", <<t.exc>>, 0)>>) ELSE t
    ELSE Text(<<Tok("route_query_failed", <<Get(result, "error", "unknown_error")>>, 0)>>)

TransitLegText(result) ==
    IF result.success
    THEN TransitPlansText(Get(result, "transits", <<>>), Len(Get(result, "transits", <<>>)))
    ELSE Text(<<Tok("route_query_failed", <<Get(result, "error", "unknown_error")>>, 0)>>)

----------------------------------------------------------------------------
(* Node 4: _plan_route_node and its three leg loops *)

MaxRoutePois == 5

\* a dispatcher that sends unset and mixed preferences to the walking planner
StrategyDefaultWalking(pref) ==
    CASE pref = "buxing" -> "walking"
      [] pref = "gongjiao" -> "transit"
      [] pref = "zijia" -> "driving"
      [] OTHER -> "walking"

\* 步行 公交 自驾; everything else (混合, 未设置) takes the transit branch
Strategy(pref) ==
    CASE pref = "buxing" -> "walking"
      [] pref = "gongjiao" -> "transit"
      [] pref = "zijia" -> "driving"
      [] OTHER -> "transit"

StrategyHeader(pref) ==
    CASE pref = "buxing" -> "walking_routes"
      [] pref = "gongjiao" -> "transit_routes"
      [] pref = "zijia" -> "driving_routes"
      [] OTHER -> "transit_routes_recommended"

\* the client call of one leg and the text the loop body makes of its answer
\* a planner that lets the failure of a routing call end the loop
LegTextFailureRaises(mode, h) ==
    LET result == CASE mode = "walking" -> plan_walking_route(h)
                    [] mode = "driving" -> plan_driving_route(h)
                    [] OTHER -> plan_transit_route(h)
    IN  IF ~result.success THEN Raise("RoutePlanningError")
        ELSE CASE mode = "walking" -> WalkingLegText(result)
               [] mode = "driving" -> DrivingLegText(result)
               [] OTHER -> TransitLegText(result)

LegText(mode, h) ==
    CASE mode = "walking" -> WalkingLegText(plan_walking_route(h))
      [] mode = "driving" -> DrivingLegText(plan_driving_route(h))
      [] OTHER -> TransitLegText(plan_transit_route(h))

\* The loop `for i in range(len(pois) - 1)`, leg by leg, from a loop state
\* [text |-> route_info so far, cs |-> calls so far, exc |-> exception or ""].
RECURSIVE RouteLoop(_, _, _, _)
RouteLoop(pois, mode, resp, n) ==
    IF n = 0 THEN [text |-> <<>>, cs |-> <<>>, exc |-> ""]
    ELSE LET before == RouteLoop(pois, mode, resp, n - 1)
             origin_poi == pois[n]
             dest_poi == pois[n + 1]
         IN  IF before.exc # "" THEN before
             ELSE IF ~IsDict(origin_poi) \/ ~IsDict(dest_poi)
                  THEN [before EXCEPT !.exc = "AttributeError"]
             ELSE LET origin_name == Get(origin_poi, "name", "unknown")
                      dest_name == Get(dest_poi, "name", "unknown")
                      origin_location == Get(origin_poi, "location", "")
                      dest_location == Get(dest_poi, "location", "")
                      title == <<Tok("leg_title", <<origin_name, dest_name>>, n)>>
                  IN  IF ~Truthy(origin_location) \/ ~Truthy(dest_location)
                      THEN [before EXCEPT
                              !.text = @ \o title \o <<Tok("missing_location", <<>>, 0)>>]
                      ELSE LET leg == LegText(mode, resp[n])
                           IN  [text |-> before.text \o title \o leg.text,
                                cs |-> Append(before.cs,
                                              Call("route_" \o mode, origin_name, n,
                                                   <<origin_location, dest_location>>)),
                                exc |-> leg.exc]

\* a planner that uses every POI as a waypoint
SelectedPoisAll(pois) == pois

\* pois[:5]
SelectedPois(pois) == Take(pois, MaxRoutePois)

\* the notice for fewer than two POIs
\* a notice for a single place that names it without its address
ShortRouteInfoNameOnly(pois) ==
    <<Tok("route_advice_header", <<>>, 0)>>
    \o (IF pois = <<>> THEN <<Tok("no_pois_cannot_plan_route", <<>>, 0)>>
        ELSE <<Tok("only_one_place_go_directly", <<>>, 0),
               Tok("place_name", <<Get(pois[1], "name", "unknown")>>, 0)>>)

ShortRouteInfo(pois) ==
    <<Tok("route_advice_header", <<>>, 0)>>
    \o (IF pois = <<>> THEN <<Tok("no_pois_cannot_plan_route", <<>>, 0)>>
        ELSE <<Tok("only_one_place_go_directly", <<>>, 0),
               Tok("place_name", <<Get(pois[1], "name", "unknown")>>, 0),
               Tok("place_address", <<Get(pois[1], "address", "unknown")>>, 0)>>)

\* RouteResp maps a strategy to the exchanges the environment may answer with
PlanRouteNode(RouteResp) ==
    /\ pc = "plan_route"
    /\ LET pois == IF "poi_results" \in present THEN poi_results ELSE <<>>
           mode == Strategy(transport_preference)
           selected_pois == SelectedPois(pois)
       IN  IF Len(pois) < 2
           THEN /\ route_info' = ShortRouteInfo(pois)
                /\ present' = present \cup {"route_info"}
                /\ pc' = Edge("plan_route")
                /\ UNCHANGED <<calls, raised>>
           ELSE \E resp \in [1..(Len(selected_pois) - 1) -> RouteResp[mode]] :
                  LET out == RouteLoop(selected_pois, mode, resp, Len(selected_pois) - 1)
                  IN  /\ calls' = calls \o out.cs
                      /\ IF out.exc = ""
                         THEN /\ route_info' =
                                   <<Tok("route_detail_header", <<>>, 0),
                                     Tok(StrategyHeader(transport_preference), <<>>, 0)>>
                                   \o out.text
                              /\ present' = present \cup {"route_info"}
                              /\ pc' = Edge("plan_route")
                              /\ raised' = raised
                         ELSE /\ UNCHANGED <<route_info, present>>
                              /\ pc' = "raised"
                              /\ raised' = out.exc
    /\ history' = Append(history, "plan_route")
    /\ UNCHANGED <<user_query, city, travel_interests, transport_preference,
                   travel_pace, budget_level, poi_results, review_results,
                   hotel_results, final_recommendation, gate, returned, via>>
    /\ UNCHANGED <<agent_vars, suspended>>

----------------------------------------------------------------------------
(* Node 5: _generate_recommendation_node *)

MaxReviewSummary == 150

\* a summary cut at 150 characters with nothing added
ReviewSummaryCut(review) == Take(review, MaxReviewSummary)

\* review[:150] + "..." if len(review) > 150 else review
ReviewSummary(review) ==
    IF Len(review) > MaxReviewSummary
    THEN Take(review, MaxReviewSummary) \o <<"...">> ELSE review

\* an entry that shows a review only for the places that were looked up
PoiEntryFirstFive(poi, idx, reviews) ==
    LET name == Get(poi, "name", "unknown")
        poi_type == Get(poi, "type", "")
    IN  <<Tok("poi_title", <<name>>, idx),
          Tok("poi_address", <<Get(poi, "address", "unknown")>>, 0)>>
        \o (IF Truthy(poi_type) THEN <<Tok("poi_type", <<poi_type>>, 0)>> ELSE <<>>)
        \o (IF name \in DOMAIN reviews /\ idx <= MaxReviewPois
            THEN <<Tok("poi_review", ReviewSummary(reviews[name]), 0)>> ELSE <<>>)
        \o <<Tok("nl", <<>>, 0)>>

PoiEntry(poi, idx, reviews) ==
    LET name == Get(poi, "name", "unknown")
        poi_type == Get(poi, "type", "")
    IN  <<Tok("poi_title", <<name>>, idx),
          Tok("poi_address", <<Get(poi, "address", "unknown")>>, 0)>>
        \o (IF Truthy(poi_type) THEN <<Tok("poi_type", <<poi_type>>, 0)>> ELSE <<>>)
        \o (IF name \in DOMAIN reviews
            THEN <<Tok("poi_review", ReviewSummary(reviews[name]), 0)>> ELSE <<>>)
        \o <<Tok("nl", <<>>, 0)>>

RECURSIVE PoiEntries(_, _, _)
PoiEntries(pois, n, reviews) ==
    IF n = 0 THEN <<>>
    ELSE PoiEntries(pois, n - 1, reviews) \o PoiEntry(pois[n], n, reviews)

\* tips that treat every budget other than 经济 as 豪华
TipsForEveryBudget(budget, pace) ==
    (IF budget = "jingji" THEN <<Tok("tip_budget_economy", <<>>, 0)>>
     ELSE <<Tok("tip_budget_luxury", <<>>, 0)>>)
    \o (IF pace = "youxian" THEN <<Tok("tip_pace_relaxed", <<>>, 0)>>
        ELSE IF pace = "jincou" THEN <<Tok("tip_pace_packed", <<>>, 0)>> ELSE <<>>)
    \o <<Tok("tip_check_opening_hours", <<>>, 0), Tok("tip_use_live_navigation", <<>>, 0)>>

\* 经济 / 豪华, 悠闲 / 紧凑, then the two generic tips
Tips(budget, pace) ==
    (IF budget = "jingji" THEN <<Tok("tip_budget_economy", <<>>, 0)>>
     ELSE IF budget = "haohua" THEN <<Tok("tip_budget_luxury", <<>>, 0)>> ELSE <<>>)
    \o (IF pace = "youxian" THEN <<Tok("tip_pace_relaxed", <<>>, 0)>>
        ELSE IF pace = "jincou" THEN <<Tok("tip_pace_packed", <<>>, 0)>> ELSE <<>>)
    \o <<Tok("tip_check_opening_hours", <<>>, 0), Tok("tip_use_live_navigation", <<>>, 0)>>

\* a node that returns nothing when there is no place to list
RecommendationOnlyWithPois(pois, reviews, route, hotels, interests, budget, pace) ==
    IF pois = <<>> THEN <<>>
    ELSE (IF route # <<>> THEN route \o <<Tok("nl", <<>>, 0)>> ELSE <<>>)
         \o (IF hotels # <<>> THEN hotels \o <<Tok("nl", <<>>, 0)>> ELSE <<>>)
         \o <<Tok("poi_section_header", <<>>, 0),
              Tok("based_on_your_preferences", interests, 0),
              Tok("selected_n_places", <<>>, Len(pois))>>
         \o PoiEntries(pois, Len(pois), reviews)
         \o <<Tok("tips_header", <<>>, 0)>>
         \o Tips(budget, pace)

\* a node that appends to the final_recommendation the state already holds
RecommendationAppended(pois, reviews, route, hotels, interests, budget, pace) ==
    final_recommendation
    \o (IF route # <<>> THEN route \o <<Tok("nl", <<>>, 0)>> ELSE <<>>)
    \o (IF hotels # <<>> THEN hotels \o <<Tok("nl", <<>>, 0)>> ELSE <<>>)
    \o <<Tok("poi_section_header", <<>>, 0),
         Tok("based_on_your_preferences", interests, 0),
         Tok("selected_n_places", <<>>, Len(pois))>>
    \o PoiEntries(pois, Len(pois), reviews)
    \o <<Tok("tips_header", <<>>, 0)>>
    \o Tips(budget, pace)

Recommendation(pois, reviews, route, hotels, interests, budget, pace) ==
    (IF route # <<>> THEN route \o <<Tok("nl", <<>>, 0)>> ELSE <<>>)
    \o (IF hotels # <<>> THEN hotels \o <<Tok("nl", <<>>, 0)>> ELSE <<>>)
    \o <<Tok("poi_section_header", <<>>, 0),
         Tok("based_on_your_preferences", interests, 0),
         Tok("selected_n_places", <<>>, Len(pois))>>
    \o PoiEntries(pois, Len(pois), reviews)
    \o <<Tok("tips_header", <<>>, 0)>>
    \o Tips(budget, pace)

\* poi.get raises on an entry that is no dict; the node has no try block
GenerateRecommendationNode ==
    /\ pc = "generate_recommendation"
    /\ LET pois == IF "poi_results" \in present THEN poi_results ELSE <<>>
       IN  IF \A i \in 1..Len(pois) : IsDict(pois[i])
           THEN /\ final_recommendation' =
                     Recommendation(pois,
                          IF "review_results" \in present THEN review_results ELSE <<>>,
                          IF "route_info" \in present THEN route_info ELSE <<>>,
                          IF "hotel_results" \in present THEN hotel_results ELSE <<>>,
                          travel_interests, budget_level, travel_pace)
                /\ present' = present \cup {"final_recommendation"}
                /\ pc' = Edge("generate_recommendation")
                /\ raised' = raised
           ELSE /\ UNCHANGED <<final_recommendation, present>>
                /\ pc' = "raised"
                /\ raised' = "AttributeError"
    /\ history' = Append(history, "generate_recommendation")
    /\ UNCHANGED <<user_query, city, travel_interests, transport_preference,
                   travel_pace, budget_level, poi_results, review_results,
                   hotel_results, route_info, gate, calls, returned, via>>
    /\ UNCHANGED <<agent_vars, suspended>>

----------------------------------------------------------------------------
(* RecommendationWorkflow.run *)

\* 未设置
NotSet == "weishezhi"

\* the state no run owns: every run starts from it and is discarded into it
NoRun ==
    /\ user_query = <<>> /\ city = "" /\ travel_interests = <<>>
    /\ transport_preference = NotSet /\ travel_pace = NotSet /\ budget_level = NotSet
    /\ present = {} /\ poi_results = <<>> /\ review_results = <<>>
    /\ hotel_results = <<>> /\ route_info = <<>> /\ final_recommendation = <<>>
    /\ gate = "" /\ history = <<>> /\ calls = <<>> /\ returned = <<>>
    /\ raised = "" /\ via = ""

\* a run that ignores the runtime state and starts from the defaults
InitialStateDefaults(query, c, state_data) ==
    [user_query |-> query, city |-> c, travel_interests |-> <<>>,
     transport_preference |-> NotSet, travel_pace |-> NotSet, budget_level |-> NotSet]

\* initial_state as run builds it from runtime.state
InitialState(query, c, state_data) ==
    [user_query |-> query, city |-> c,
     travel_interests |-> Get(state_data, "travel_interests", <<>>),
     transport_preference |-> Get(state_data, "transport_preference", NotSet),
     travel_pace |-> Get(state_data, "travel_pace", NotSet),
     budget_level |-> Get(state_data, "budget_level", NotSet)]

\* run up to graph.invoke: the entry point search_pois is next
Start(query, c, state_data, who) ==
    /\ pc = "idle"
    /\ LET initial_state == InitialState(query, c, state_data)
       IN  /\ user_query' = initial_state.user_query
           /\ city' = initial_state.city
           /\ travel_interests' = initial_state.travel_interests
           /\ transport_preference' = initial_state.transport_preference
           /\ travel_pace' = initial_state.travel_pace
           /\ budget_level' = initial_state.budget_level
    /\ present' = {}
    /\ pc' = "search_pois"
    /\ via' = who
    /\ UNCHANGED <<poi_results, review_results, hotel_results, route_info,
                   final_recommendation, gate, history, calls, returned, raised>>

\* RecommendationWorkflow(runtime).run(user_query, city) called by any caller
RunDirect(Inputs) ==
    /\ round = "" /\ pc = "idle"
    /\ \E in \in Inputs : Start(in.user_query, in.city, in.state, "direct")
    /\ UNCHANGED <<agent_vars, suspended>>

\* 推荐生成失败
RecommendationFailed == <<Tok("recommendation_failed", <<>>, 0)>>

\* the graph reached END: run returns final_state.get("final_recommendation", ...)
RunReturn ==
    /\ pc = "END"
    /\ returned' = IF "final_recommendation" \in present
                   THEN final_recommendation ELSE RecommendationFailed
    /\ pc' = "done"
    /\ UNCHANGED <<state_vars, gate, history, calls, raised, via>>
    /\ UNCHANGED <<agent_vars, suspended>>

----------------------------------------------------------------------------
(* Two invocations of run at a time. Each invocation has its own frame: the
   dict initial_state that run builds and graph.invoke passes from node to
   node, and the position in the graph. One invocation executes; the frame of
   the other is kept in suspended until the two are switched. *)

\* the frame of an invocation that has not been made
NoInvocation ==
    [pc |-> "idle", user_query |-> <<>>, city |-> "", travel_interests |-> <<>>,
     transport_preference |-> NotSet, travel_pace |-> NotSet,
     budget_level |-> NotSet, present |-> {}, poi_results |-> <<>>,
     review_results |-> <<>>, hotel_results |-> <<>>, route_info |-> <<>>,
     final_recommendation |-> <<>>, gate |-> "", history |-> <<>>,
     calls |-> <<>>, returned |-> <<>>, raised |-> "", via |-> ""]

\* the frame of the invocation that is executing
Running ==
    [pc |-> pc, user_query |-> user_query, city |-> city,
     travel_interests |-> travel_interests,
     transport_preference |-> transport_preference, travel_pace |-> travel_pace,
     budget_level |-> budget_level, present |-> present,
     poi_results |-> poi_results, review_results |-> review_results,
     hotel_results |-> hotel_results, route_info |-> route_info,
     final_recommendation |-> final_recommendation, gate |-> gate,
     history |-> history, calls |-> calls, returned |-> returned,
     raised |-> raised, via |-> via]

\* a workflow that keeps all_pois in one list for all its invocations
ResumedSharingPois(frame) == [frame EXCEPT !.poi_results = poi_results]

\* what the invocation that resumes finds: the frame it left
Resumed(frame) == frame

\* the executing invocation is suspended between two nodes and the other one
\* goes on (or, not made yet, can be made)
Switch ==
    /\ round = ""
    /\ suspended # Running
    /\ suspended' = Running
    /\ LET frame == Resumed(suspended)
       IN  /\ pc' = frame.pc
           /\ user_query' = frame.user_query
           /\ city' = frame.city
           /\ travel_interests' = frame.travel_interests
           /\ transport_preference' = frame.transport_preference
           /\ travel_pace' = frame.travel_pace
           /\ budget_level' = frame.budget_level
           /\ present' = frame.present
           /\ poi_results' = frame.poi_results
           /\ review_results' = frame.review_results
           /\ hotel_results' = frame.hotel_results
           /\ route_info' = frame.route_info
           /\ final_recommendation' = frame.final_recommendation
           /\ gate' = frame.gate
           /\ history' = frame.history
           /\ calls' = frame.calls
           /\ returned' = frame.returned
           /\ raised' = frame.raised
           /\ via' = frame.via
    /\ UNCHANGED agent_vars

----------------------------------------------------------------------------
(* agent/preference_manager.py *)

\* str.strip() leaves something
NotBlank(text) == \E i \in 1..Len(text) : ~IsSpace(text[i])

\* 偏好 喜好 喜欢 不喜欢 合适的节奏 节奏 预算 消费水平
preference_keywords ==
    { <<"pian", "hao">>, <<"xi", "hao">>, <<"xi", "huan">>, <<"bu", "xi", "huan">>,
      <<"he", "shi", "de", "jie", "zou">>, <<"jie", "zou">>, <<"yu", "suan">>,
      <<"xiao", "fei", "shui", "ping_level">> }

\* 历史文化 自然风光 美食体验 购物娱乐 亲子游玩 艺术文艺
\* 步行 公交 地铁 自驾 混合 悠闲 适中 紧凑 经济 舒适 豪华
option_words ==
    { <<"li", "shi_history", "wen", "hua_culture">>, <<"zi", "ran", "feng", "guang">>,
      <<"mei", "shi_food", "ti", "yan">>, <<"gou", "wu", "yu_fun", "le">>,
      <<"qin", "zi_child", "you", "wan">>, <<"yi_art", "shu_art", "wen", "yi_art">>,
      <<"bu_step", "xing">>, <<"gong_public", "jiao">>, <<"di", "tie">>,
      <<"zi", "jia_drive">>, <<"hun", "he">>, <<"you_leisure", "xian_idle">>,
      <<"shi", "zhong">>, <<"jin", "cou">>, <<"jing_econ", "ji">>, <<"shu", "shi">>,
      <<"hao_lux", "hua_lux">> }

\* a test that also fires on the transport words 开车 and 驾车
should_update_preferences_wide(user_input) ==
    /\ NotBlank(user_input)
    /\ \/ ContainsAny(user_input, preference_keywords)
       \/ ContainsAny(user_input, option_words)
       \/ ContainsAny(user_input, {<<"kai", "che">>, <<"jia_drive", "che">>})

should_update_preferences(user_input) ==
    /\ NotBlank(user_input)
    /\ \/ ContainsAny(user_input, preference_keywords)
       \/ ContainsAny(user_input, option_words)

\* interests_map: the keyword and the label it stands for
interests_map ==
    { <<<<"li", "shi_history", "wen", "hua_culture">>, "lishiwenhua">>,
      <<<<"zi", "ran", "feng", "guang">>, "ziranfengguang">>,
      <<<<"mei", "shi_food", "ti", "yan">>, "meishitiyan">>,
      <<<<"mei", "shi_food">>, "meishitiyan">>,
      <<<<"gou", "wu", "yu_fun", "le">>, "gouwuyule">>,
      <<<<"gou", "wu">>, "gouwuyule">>,
      <<<<"qin", "zi_child", "you", "wan">>, "qinziyouwan">>,
      <<<<"qin", "zi_child">>, "qinziyouwan">>,
      <<<<"yi_art", "shu_art", "wen", "yi_art">>, "yishuwenyi">>,
      <<<<"wen", "yi_art">>, "yishuwenyi">> }

Range(f) == {f[x] : x \in DOMAIN f}

\* list(a_set): the elements once each, in an order the code does not fix
ListsOf(S) == {l \in [1..Cardinality(S) -> S] : Range(l) = S}

\* the transport if/elif chain: 步行, 公交/地铁, 自驾/开车/驾车, 混合
TransportOfText(text, current) ==
    IF Contains(text, <<"bu_step", "xing">>) THEN "buxing"
    ELSE IF Contains(text, <<"gong_public", "jiao">>) \/ Contains(text, <<"di", "tie">>)
         THEN "gongjiao"
    ELSE IF Contains(text, <<"zi", "jia_drive">>) \/ Contains(text, <<"kai", "che">>)
            \/ Contains(text, <<"jia_drive", "che">>) THEN "zijia"
    ELSE IF Contains(text, <<"hun", "he">>) THEN "hunhe"
    ELSE current

\* 悠闲 适中 紧凑
PaceOfText(text, current) ==
    IF Contains(text, <<"you_leisure", "xian_idle">>) THEN "youxian"
    ELSE IF Contains(text, <<"shi", "zhong">>) THEN "shizhong"
    ELSE IF Contains(text, <<"jin", "cou">>) THEN "jincou"
    ELSE current

\* 经济 舒适 豪华
BudgetOfText(text, current) ==
    IF Contains(text, <<"jing_econ", "ji">>) THEN "jingji"
    ELSE IF Contains(text, <<"shu", "shi">>) THEN "shushi"
    ELSE IF Contains(text, <<"hao_lux", "hua_lux">>) THEN "haohua"
    ELSE current

\* The dicts the in-place update may leave behind: one per order list(set) may give
update_preferences_from_text(user_input, preferences) ==
    IF ~NotBlank(user_input) THEN {preferences}
    ELSE LET current_interests == Range(preferences.travel_interests)
             \* 改成 / 改为
             is_replace == \/ Contains(user_input, <<"gai", "cheng_become">>)
                           \/ Contains(user_input, <<"gai", "wei">>)
             new_interests == {m[2] : m \in {x \in interests_map : Contains(user_input, x[1])}}
             merged == IF is_replace THEN new_interests
                       ELSE current_interests \cup new_interests
             transport == TransportOfText(user_input, preferences.transport_preference)
             pace == PaceOfText(user_input, preferences.travel_pace)
             budget == BudgetOfText(user_input, preferences.budget_level)
             updated == \/ new_interests # {}
                        \/ transport # preferences.transport_preference
                        \/ pace # preferences.travel_pace
                        \/ budget # preferences.budget_level
         IN  { [preferences EXCEPT
                  !.travel_interests = l,
                  !.transport_preference = transport,
                  !.travel_pace = pace,
                  !.budget_level = budget,
                  !.preferences_collected = IF updated THEN TRUE ELSE @] :
               l \in IF new_interests # {} THEN ListsOf(merged)
                     ELSE {preferences.travel_interests} }

----------------------------------------------------------------------------
(* agent/user_preference_state.py and agent/session_manager.py *)
(* The fields no code path of the agent changes (accommodation_preference, *)
(* food_preference, special_needs, weather_sensitive) are left out.        *)

get_default_preferences ==
    [travel_interests |-> <<>>, transport_preference |-> NotSet,
     travel_pace |-> NotSet, budget_level |-> NotSet,
     preferences_collected |-> FALSE, interaction_count |-> 0]

\* The session manager's state as a value: the counter, the map from session
\* id to a dict reference, and the dicts themselves.
Manager == [counter |-> thread_id_counter, prefs |-> session_preferences, heap |-> heap]

SessionId(n) == "session_" \o ToString(n)

\* session_preferences[sid] = get_default_preferences(): a fresh dict
WithFreshPreferences(m, sid) ==
    [m EXCEPT !.heap = Append(m.heap, get_default_preferences),
              !.prefs = Put(m.prefs, sid, Len(m.heap) + 1)]

\* a session manager that reuses the counter value it had
create_new_session_stale(m) ==
    WithFreshPreferences(m, SessionId(m.counter))

create_new_session(m) ==
    WithFreshPreferences([m EXCEPT !.counter = @ + 1], SessionId(m.counter + 1))

\* a check that always installs fresh defaults
ensure_session_exists_reset(m, sid) == WithFreshPreferences(m, sid)

ensure_session_exists(m, sid) ==
    IF sid \notin DOMAIN m.prefs THEN WithFreshPreferences(m, sid) ELSE m

\* get_session_preferences, as far as it changes the manager
get_session_preferences(m, sid) ==
    IF sid \notin DOMAIN m.prefs THEN WithFreshPreferences(m, sid) ELSE m

\* self.session_preferences[session_id] = preferences (the dict, not a copy)
update_session_preferences(m, sid, ref) == [m EXCEPT !.prefs = Put(m.prefs, sid, ref)]

SetManager(m) ==
    /\ thread_id_counter' = m.counter
    /\ session_preferences' = m.prefs
    /\ heap' = m.heap

----------------------------------------------------------------------------
(* agent/agent.py: TravelPlanningAgent *)

MaxSessions == 2
MaxRounds == 2

\* TravelPlanningAgent.create_new_session
CreateNewSession ==
    /\ round = "" /\ pc = "idle"
    /\ thread_id_counter < MaxSessions
    /\ SetManager(create_new_session(Manager))
    /\ UNCHANGED <<temp_runtime_state, agent_state, round>>
    /\ UNCHANGED <<state_vars, run_vars, suspended>>

\* the TravelContext get_response hands to agent.invoke
Context(preferences, allow_pref_update) ==
    [allow_pref_update |-> allow_pref_update,
     travel_interests |-> preferences.travel_interests,
     transport_preference |-> preferences.transport_preference,
     travel_pace |-> preferences.travel_pace,
     budget_level |-> preferences.budget_level,
     preferences_collected |-> preferences.preferences_collected,
     interaction_count |-> preferences.interaction_count]

\* a round that extracts preferences from every input
AllowPrefUpdateAlways(user_input) == TRUE

\* allow_pref_update = should_update_preferences(user_input)
AllowPrefUpdate(user_input) == should_update_preferences(user_input)

\* get_response up to agent.invoke; session "" stands for session_id=None
GetResponseOf(given, user_input) ==
    /\ round = "" /\ pc = "idle"
    /\ given = "" => thread_id_counter < MaxSessions
    /\ LET m0 == IF given = "" THEN create_new_session(Manager) ELSE Manager
           session_id == IF given = "" THEN SessionId(m0.counter) ELSE given
           m1 == ensure_session_exists(m0, session_id)
           m2 == get_session_preferences(m1, session_id)
           ref == m2.prefs[session_id]
           counted == [m2.heap[ref] EXCEPT !.interaction_count = @ + 1]
           allow_pref_update == AllowPrefUpdate(user_input)
       IN  /\ m2.heap[ref].interaction_count < MaxRounds
           /\ \E preferences \in
                   IF allow_pref_update
                   THEN update_preferences_from_text(user_input, counted)
                   ELSE {counted} :
                /\ SetManager(update_session_preferences(
                       [m2 EXCEPT !.heap[ref] = preferences], session_id, ref))
                /\ agent_state' = Context(preferences, allow_pref_update)
           /\ round' = session_id
    /\ UNCHANGED temp_runtime_state
    /\ UNCHANGED <<state_vars, run_vars, suspended>>

GetResponseBegin(Sessions, UserInputs) ==
    \E given \in Sessions, user_input \in UserInputs : GetResponseOf(given, user_input)

\* the update_user_preferences tool, called by the model inside agent.invoke:
\* args holds the arguments that are not None
ToolUpdateUserPreferences(Args) ==
    /\ round # "" /\ pc = "idle"
    /\ \E args \in Args :
         agent_state' =
             [k \in DOMAIN agent_state |->
                 IF k \in DOMAIN args THEN args[k]
                 ELSE IF k = "preferences_collected" /\ DOMAIN args # {} THEN TRUE
                 ELSE agent_state[k]]
    /\ UNCHANGED <<thread_id_counter, session_preferences, heap, temp_runtime_state, round>>
    /\ UNCHANGED <<state_vars, run_vars, suspended>>

\* 推荐
DefaultQuery == <<"tui", "jian">>

\* the runtime the workflow tool was created with: create_recommendation_workflow_tool
\* closes over the TempRuntime of _init_agent, whose state is {}
ToolRuntimeState == temp_runtime_state

\* the get_structured_recommendations tool, called by the model inside agent.invoke
ToolGetStructuredRecommendations(Cities, Queries) ==
    /\ round # "" /\ pc = "idle"
    /\ \E c \in Cities, query \in Queries :
         Start(IF query = <<>> THEN DefaultQuery ELSE query, c, ToolRuntimeState, round)
    /\ UNCHANGED <<agent_vars, suspended>>

\* agent.invoke returned (or raised): final_state = resp.get("state", {}) is
\* the agent state when the response carries one, and {} otherwise
GetResponseEnd ==
    /\ round # "" /\ pc = "idle"
    /\ \E carries_state \in BOOLEAN :
         LET ref == session_preferences[round]
         IN  heap' = IF carries_state
                     THEN [heap EXCEPT ![ref] =
                             [@ EXCEPT !.travel_interests = agent_state.travel_interests,
                                       !.transport_preference = agent_state.transport_preference,
                                       !.travel_pace = agent_state.travel_pace,
                                       !.budget_level = agent_state.budget_level,
                                       !.preferences_collected = agent_state.preferences_collected]]
                     ELSE heap
    /\ agent_state' = <<>>
    /\ round' = ""
    /\ UNCHANGED <<thread_id_counter, session_preferences, temp_runtime_state>>
    /\ UNCHANGED <<state_vars, run_vars, suspended>>

\* the caller is done with the run: the WorkflowState is dropped
Discard ==
    /\ pc \in {"done", "raised"}
    /\ user_query' = <<>> /\ city' = "" /\ travel_interests' = <<>>
    /\ transport_preference' = NotSet /\ travel_pace' = NotSet /\ budget_level' = NotSet
    /\ present' = {} /\ poi_results' = <<>> /\ review_results' = <<>>
    /\ hotel_results' = <<>> /\ route_info' = <<>> /\ final_recommendation' = <<>>
    /\ gate' = "" /\ history' = <<>> /\ calls' = <<>> /\ returned' = <<>>
    /\ raised' = "" /\ via' = ""
    /\ pc' = "idle"
    /\ UNCHANGED <<agent_vars, suspended>>

----------------------------------------------------------------------------
(* The environment: what the external services may answer *)

PoiA == [name |-> "gugong", address |-> "addr_gugong", type |-> "fengjing",
         location |-> "116.39,39.91"]
PoiB == [name |-> "tiantan", address |-> "addr_tiantan", type |-> "",
         location |-> "116.41,39.88"]
\* Gaode writes an empty field as []
PoiC == [name |-> "hutong", address |-> "[]", location |-> "[]"]
PoiD == [address |-> "addr_d", type |-> "canyin", location |-> "116.30,39.99"]
PoiE == [name |-> "yiheyuan", address |-> "addr_yiheyuan", location |-> "116.27,39.99"]
NotADict == [nondict |-> "str"]

Pois(list) == Http([status |-> "1", pois |-> list])

\* the ways a Gaode call fails: no key, timeout, HTTP 500, a body that is no
\* JSON, an error status, a JSON array instead of an object
GaodeFailures ==
    { [kind |-> "nokey"], [kind |-> "exception"],
      [kind |-> "http", code |-> 500, json |-> TRUE, data |-> [status |-> "1"]],
      [kind |-> "http", code |-> 200, json |-> FALSE, data |-> <<>>],
      Http([status |-> "0", info |-> "INVALID_USER_KEY"]),
      Http([nondict |-> "list"]) }

PoiFailures == GaodeFailures \cup {Pois(<<>>)}

PoiResponses ==
    PoiFailures \cup {Pois(<<PoiA>>), Pois(<<PoiB, PoiC, PoiD, PoiE>>), Pois(<<NotADict>>)}

PoiResponsesSmall == {[kind |-> "exception"], Pois(<<PoiA>>)}

\* 很好玩
GoodReview == [title |-> <<"gu", "gong">>, content |-> <<"hen", "hao", "wan">>,
               url |-> <<"dianping.com">>]
\* 故宫一日游攻略
GuideReview == [title |-> <<"gu", "gong">>, content |-> <<"yi", "ri", "you", "gong", "lve">>]

ReviewResponses ==
    { [kind |-> "import_error"], [kind |-> "error"],
      [kind |-> "results", items |-> <<GoodReview>>],
      [kind |-> "results", items |-> <<GuideReview>>] }

ReviewResponsesSmall == {[kind |-> "error"]}

\* Day1 上午参观 / 第一天 游故宫 / 路线规划 如下: results that are guides
GuideDay1 == [title |-> <<"gu", "gong">>,
              content |-> <<"D", "a", "y", "1", "shang", "wu", "can", "guan">>]
GuideFirstDay == [title |-> <<"di_ord", "yi", "tian", "you", "gu", "gong">>,
                  content |-> <<"hen", "hao", "wan">>]
GuideRoutePlan == [title |-> <<"gu", "gong">>,
                   content |-> <<"lu", "xian", "gui", "hua", "ru", "xia">>]

\* every outcome of tavily_search_reviews, with reviews and guides as results
ReviewResponsesSearch ==
    { [kind |-> "nokey"], [kind |-> "error"],
      [kind |-> "results", items |-> <<>>],
      [kind |-> "results", items |-> <<GoodReview>>],
      [kind |-> "results", items |-> <<GoodReview, GuideDay1>>],
      [kind |-> "results", items |-> <<GuideFirstDay>>],
      [kind |-> "results", items |-> <<GuideRoutePlan>>] }

Hotel1 == [name |-> "beijing_fandian", address |-> "addr_hotel", starRating |-> "5",
           price |-> [lowestPrice |-> "600", currency |-> "CNY"]]
\* "starRating": null
HotelNullStar == [name |-> "wu_xing", address |-> "addr_hotel2", starRating |-> "null"]

Hotels(v) == [kind |-> "http", code |-> 200, json |-> TRUE, envelope |-> "text",
              text_json |-> TRUE, hotels |-> v]

HotelFailures ==
    { [kind |-> "exception"],
      [kind |-> "http", code |-> 502, json |-> TRUE, envelope |-> "text",
       text_json |-> TRUE, hotels |-> <<>>],
      [kind |-> "http", code |-> 200, json |-> TRUE, envelope |-> "mcp_error",
       text_json |-> TRUE, hotels |-> <<>>],
      [kind |-> "http", code |-> 200, json |-> TRUE, envelope |-> "text",
       text_json |-> FALSE, hotels |-> <<>>],
      Hotels([nondict |-> "list"]),
      Hotels([hotelInformationList |-> <<HotelNullStar>>]) }

HotelResponses ==
    HotelFailures \cup { Hotels([hotelInformationList |-> <<Hotel1>>]),
                         Hotels([hotelInformationList |-> <<>>]) }

HotelResponsesSmall == {[kind |-> "exception"]}

Step1 == [instruction |-> "xiang_bei", distance |-> "90", road |-> "changan_jie"]
\* a step whose distance is []
StepBad == [instruction |-> "xiang_bei", distance |-> "[]"]

Path(steps) == Http([status |-> "1",
                     route |-> [paths |-> <<[distance |-> "1500", duration |-> "600",
                                             tolls |-> "5", traffic_lights |-> "4",
                                             steps |-> steps]>>]])

Busline1 == [name |-> "ditie_1", departure_stop |-> [name |-> "tiananmen_dong"],
             arrival_stop |-> [name |-> "xidan"], via_num |-> "4",
             type |-> <<"di", "tie", "xian", "lu">>]

Transit(cost) == Http([status |-> "1",
                       route |-> [transits |->
                           <<[cost |-> cost, duration |-> "1500", walking_distance |-> "600",
                              segments |-> <<[walking |-> [distance |-> "90"],
                                              bus |-> [buslines |-> <<Busline1>>]]>>]>>]])

\* per strategy: the failures, a well-formed answer, and an answer that says
\* success and carries [] where a number is expected
RouteResponses ==
    [ walking |-> {[kind |-> "exception"], Path(<<Step1>>), Path(<<StepBad>>)},
      transit |-> {[kind |-> "exception"], Transit("5"), Transit("[]")},
      driving |-> {[kind |-> "exception"], Path(<<Step1>>), Path(<<StepBad>>)} ]

RouteResponsesSmall ==
    [ walking |-> {[kind |-> "exception"]},
      transit |-> {[kind |-> "exception"]},
      driving |-> {[kind |-> "exception"]} ]

----------------------------------------------------------------------------
(* The inputs *)

\* 帮我规划北京3天行程
QueryPlan == <<"bang", "wo", "gui", "hua", "bei", "jing", "3", "tian", "xing", "cheng">>
\* 北京一日游不住宿
QueryDayTrip == <<"bei", "jing", "yi", "ri", "you", "bu", "zhu", "su">>
\* 推荐个酒店
QueryHotel == <<"tui", "jian", "ge", "jiu", "dian">>

FixtureQueries == {QueryPlan, QueryDayTrip, QueryHotel}

\* runtime.state as a caller of RecommendationWorkflow may have filled it
RuntimeStates ==
    { <<>>,
      [travel_interests |-> <<"lishiwenhua">>, transport_preference |-> "buxing",
       travel_pace |-> "youxian", budget_level |-> "jingji"],
      [travel_interests |-> <<"qita", "meishitiyan">>, transport_preference |-> "zijia",
       travel_pace |-> "jincou", budget_level |-> "haohua"],
      [transport_preference |-> "hunhe", travel_pace |-> "shizhong",
       budget_level |-> "shushi"],
      [travel_interests |-> <<"ziranfengguang", "lishiwenhua">>,
       transport_preference |-> "gongjiao"] }

Input(q, c, st) == [user_query |-> q, city |-> c, state |-> st]

RunInputs ==
    {Input(q, "beijing", st) : q \in FixtureQueries \cup {DefaultQuery}, st \in RuntimeStates}
    \cup {Input(QueryPlan, "", <<>>), Input(DefaultQuery, "", <<>>)}

----------------------------------------------------------------------------
(* The specifications *)

Init ==
    /\ NoRun
    /\ pc = "idle"
    /\ thread_id_counter = 0
    /\ session_preferences = <<>>
    /\ heap = <<>>
    /\ temp_runtime_state = <<>>
    /\ agent_state = <<>>
    /\ round = ""
    /\ suspended = NoInvocation

\* runs of the workflow started by a caller of RecommendationWorkflow.run
Next ==
    \/ RunDirect(RunInputs)
    \/ SearchPoisNode(PoiResponses)
    \/ QueryReviewsNode(ReviewResponses)
    \/ ShouldSearchHotelsEdge
    \/ SearchHotelsNode(HotelResponses)
    \/ PlanRouteNode(RouteResponses)
    \/ GenerateRecommendationNode
    \/ RunReturn
    \/ Discard

Spec == Init /\ [][Next]_vars

----------------------------------------------------------------------------
(* Runs that are followed to their end *)

\* every way a POI call finds nothing, and one answer that finds a place
PoiResponsesLive == PoiFailures \cup {Pois(<<PoiA>>)}

LiveNext ==
    \/ RunDirect(RunInputs)
    \/ SearchPoisNode(PoiResponsesLive)
    \/ QueryReviewsNode(ReviewResponses)
    \/ ShouldSearchHotelsEdge
    \/ SearchHotelsNode(HotelResponses)
    \/ PlanRouteNode(RouteResponses)
    \/ GenerateRecommendationNode
    \/ RunReturn
    \/ Discard

\* every node and the return of run are eventually taken: each external call
\* is made with a timeout, so every node returns or raises
LiveSpec ==
    /\ Init /\ [][LiveNext]_vars
    /\ WF_vars(SearchPoisNode(PoiResponsesLive))
    /\ WF_vars(QueryReviewsNode(ReviewResponses))
    /\ WF_vars(ShouldSearchHotelsEdge)
    /\ WF_vars(SearchHotelsNode(HotelResponses))
    /\ WF_vars(PlanRouteNode(RouteResponses))
    /\ WF_vars(GenerateRecommendationNode)
    /\ WF_vars(RunReturn)

----------------------------------------------------------------------------
(* Runs over every short query, with services that answer little *)

MaxQueryLen == 4

\* 住 不 一 日 游 玩 旅: enough to spell 住, 不住, 一日游, 游玩 and 旅游
GateAlphabet == {"zhu", "bu", "yi", "ri", "you", "wan", "lv"}

\* 不需要住宿; 旅游不需要住宿; 旅游当天往返; 当天往返; 旅游当天往返不住
ExclusionQueries ==
    { <<"bu", "xu", "yao", "zhu", "su">>,
      <<"lv", "you", "bu", "xu", "yao", "zhu", "su">>,
      <<"lv", "you", "dang", "tian", "wang", "fan_return">>,
      <<"dang", "tian", "wang", "fan_return">>,
      <<"lv", "you", "dang", "tian", "wang", "fan_return", "bu", "zhu">> }

GateQueries ==
    UNION {[1..n -> GateAlphabet] : n \in 0..MaxQueryLen} \cup FixtureQueries
    \cup ExclusionQueries

GateInputs == {Input(q, "beijing", <<>>) : q \in GateQueries}

PoiResponsesDown == {[kind |-> "exception"]}

GateNext ==
    \/ RunDirect(GateInputs)
    \/ SearchPoisNode(PoiResponsesDown)
    \/ QueryReviewsNode(ReviewResponsesSmall)
    \/ ShouldSearchHotelsEdge
    \/ SearchHotelsNode(HotelResponsesSmall)
    \/ PlanRouteNode(RouteResponsesSmall)
    \/ GenerateRecommendationNode
    \/ RunReturn
    \/ Discard

GateSpec == Init /\ [][GateNext]_vars

----------------------------------------------------------------------------
(* Runs over every short list of interests *)

MaxInterests == 2

\* the six interests of the keyword map and one it does not know (其他)
InterestValues == DOMAIN interest_keywords_map \cup {"qita"}

InterestLists == UNION {[1..n -> InterestValues] : n \in 0..MaxInterests}

InterestInputs ==
    {Input(q, "beijing", [travel_interests |-> l]) :
        q \in {DefaultQuery, QueryHotel}, l \in InterestLists}
    \cup {Input(DefaultQuery, "beijing", <<>>)}

\* the log keeps the answer of each POI call
InterestNext ==
    \/ RunDirect(InterestInputs)
    \/ SearchPoisAnswered(PoiResponsesSmall, TRUE)
    \/ QueryReviewsNode(ReviewResponsesSmall)
    \/ ShouldSearchHotelsEdge
    \/ SearchHotelsNode(HotelResponsesSmall)
    \/ PlanRouteNode(RouteResponsesSmall)
    \/ GenerateRecommendationNode
    \/ RunReturn
    \/ Discard

InterestSpec == Init /\ [][InterestNext]_vars

----------------------------------------------------------------------------
(* Conversations: sessions, rounds of get_response and the tools of a round *)

\* session_id=None and a session id the caller brings along
AgentSessions == {"", "session_1"}

\* 你好 / 我喜欢历史文化，预算经济 / 改成自驾
UserInputs ==
    { <<"ni", "hao">>,
      <<"wo", "xi", "huan", "li", "shi_history", "wen", "hua_culture", ",",
        "yu", "suan", "jing_econ", "ji">>,
      <<"gai", "cheng_become", "zi", "jia_drive">> }

ToolArgs ==
    { [transport_preference |-> "gongjiao"],
      [travel_interests |-> <<"meishitiyan">>, budget_level |-> "haohua"] }

AgentNext ==
    \/ CreateNewSession
    \/ GetResponseBegin(AgentSessions, UserInputs)
    \/ ToolUpdateUserPreferences(ToolArgs)
    \/ ToolGetStructuredRecommendations({"beijing"}, {<<>>, QueryHotel})
    \/ GetResponseEnd
    \/ SearchPoisNode(PoiResponsesDown)
    \/ QueryReviewsNode(ReviewResponsesSmall)
    \/ ShouldSearchHotelsEdge
    \/ SearchHotelsNode(HotelResponsesSmall)
    \/ PlanRouteNode(RouteResponsesSmall)
    \/ GenerateRecommendationNode
    \/ RunReturn
    \/ Discard

AgentSpec == Init /\ [][AgentNext]_vars

----------------------------------------------------------------------------
(* Runs whose review lookups meet every outcome of the search *)

\* each POI call finds one named place
PoiResponsesNamed == {Pois(<<PoiA>>), Pois(<<PoiB>>)}

\* the import of the search tool succeeds in these runs, so a lookup's
\* outcome is one of the texts tavily_search_reviews returns; the log keeps
\* the outcome of each lookup
ReviewNext ==
    \/ RunDirect(RunInputs)
    \/ SearchPoisNode(PoiResponsesNamed)
    \/ QueryReviewsAnswered(ReviewResponsesSearch, TRUE)
    \/ ShouldSearchHotelsEdge
    \/ SearchHotelsNode(HotelResponsesSmall)
    \/ PlanRouteNode(RouteResponsesSmall)
    \/ GenerateRecommendationNode
    \/ RunReturn
    \/ Discard

ReviewSpec == Init /\ [][ReviewNext]_vars

----------------------------------------------------------------------------
(* Runs whose places may lack a coordinate *)

\* POI calls that find a place without a location, one with, or two with
PoiResponsesRoute == {Pois(<<PoiC>>), Pois(<<PoiA>>), Pois(<<PoiA, PoiB>>)}

RouteNext ==
    \/ RunDirect(RunInputs)
    \/ SearchPoisNode(PoiResponsesRoute)
    \/ QueryReviewsNode(ReviewResponsesSmall)
    \/ ShouldSearchHotelsEdge
    \/ SearchHotelsNode(HotelResponsesSmall)
    \/ PlanRouteNode(RouteResponses)
    \/ GenerateRecommendationNode
    \/ RunReturn
    \/ Discard

RouteSpec == Init /\ [][RouteNext]_vars

----------------------------------------------------------------------------
(* _generate_recommendation_node applied to a WorkflowState, and applied
   again to the state it returned *)

MaxGenerateCalls == 2

\* a final_recommendation that an earlier call left in the state
StaleRecommendation == <<Tok("stale_recommendation", <<>>, 0)>>

GeneratePois == {<<>>, <<PoiA>>, <<PoiA, PoiB>>, <<PoiB, PoiD, NotADict>>}
\* a stored review of exactly 150 characters, and one of 151
ExactReview == [i \in 1..MaxReviewSummary |-> "hao"]
LongReview == [i \in 1..(MaxReviewSummary + 1) |-> "hao"]

GenerateReviews == {<<>>, Put(<<>>, "gugong", <<"hen", "hao", "wan">>),
                    Put(<<>>, "gugong", ExactReview),
                    Put(<<>>, "gugong", LongReview)}
GenerateRoutes == {<<>>, ShortRouteInfo(<<>>)}
GenerateHotels == {<<>>, HotelResultsOf([hotelInformationList |-> <<>>], "beijing")}

\* the WorkflowStates the node is applied to: a NotRequired key with an empty
\* value may be in the dict or missing from it
GenerateInit ==
    /\ pc = "generate_recommendation"
    /\ \E st \in RuntimeStates :
          LET initial_state == InitialState(QueryPlan, "beijing", st)
          IN  /\ user_query = initial_state.user_query
              /\ city = initial_state.city
              /\ travel_interests = initial_state.travel_interests
              /\ transport_preference = initial_state.transport_preference
              /\ travel_pace = initial_state.travel_pace
              /\ budget_level = initial_state.budget_level
    /\ poi_results \in GeneratePois
    /\ review_results \in GenerateReviews
    /\ route_info \in GenerateRoutes
    /\ hotel_results \in GenerateHotels
    /\ final_recommendation \in {<<>>, StaleRecommendation}
    /\ \E with_empty \in BOOLEAN :
          present = {k \in {"poi_results", "review_results", "route_info",
                            "hotel_results"} :
                        \/ with_empty
                        \/ k = "poi_results" /\ poi_results # <<>>
                        \/ k = "review_results" /\ review_results # <<>>
                        \/ k = "route_info" /\ route_info # <<>>
                        \/ k = "hotel_results" /\ hotel_results # <<>>}
                    \cup (IF final_recommendation # <<>>
                          THEN {"final_recommendation"} ELSE {})
    /\ gate = "" /\ history = <<>> /\ calls = <<>> /\ returned = <<>>
    /\ raised = "" /\ via = "node"
    /\ thread_id_counter = 0
    /\ session_preferences = <<>>
    /\ heap = <<>>
    /\ temp_runtime_state = <<>>
    /\ agent_state = <<>>
    /\ round = ""
    /\ suspended = NoInvocation

\* the node is called again on the state it returned
GenerateAgain ==
    /\ pc = "END"
    /\ via = "node"
    /\ Len(history) < MaxGenerateCalls
    /\ pc' = "generate_recommendation"
    /\ UNCHANGED <<state_vars, gate, history, calls, returned, raised, via>>
    /\ UNCHANGED <<agent_vars, suspended>>

GenerateNext ==
    \/ GenerateRecommendationNode
    \/ GenerateAgain

GenerateSpec == GenerateInit /\ [][GenerateNext]_vars

----------------------------------------------------------------------------
(* Two interleaved invocations, in an environment that gives every call of a
   capability the same answer *)

AnsweredPois == Pois(<<PoiA, PoiB>>)
AnsweredReview == [kind |-> "results", items |-> <<GoodReview>>]
AnsweredHotels == Hotels([hotelInformationList |-> <<>>])
AnsweredRoute ==
    [walking |-> Path(<<Step1>>), transit |-> Transit("5"), driving |-> Path(<<Step1>>)]

ConcurrentInputs ==
    {Input(QueryPlan, "beijing", st) : st \in RuntimeStates}
    \cup {Input(QueryHotel, "shanghai", st) : st \in RuntimeStates}

ConcurrentNext ==
    \/ RunDirect(ConcurrentInputs)
    \/ SearchPoisNode({AnsweredPois})
    \/ QueryReviewsNode({AnsweredReview})
    \/ ShouldSearchHotelsEdge
    \/ SearchHotelsNode({AnsweredHotels})
    \/ PlanRouteNode([mode \in DOMAIN AnsweredRoute |-> {AnsweredRoute[mode]}])
    \/ GenerateRecommendationNode
    \/ RunReturn
    \/ Discard
    \/ Switch

ConcurrentSpec == Init /\ [][ConcurrentNext]_vars

----------------------------------------------------------------------------
(* Runs whose log keeps what each POI call was answered *)

PoiInputs == {Input(QueryPlan, "beijing", st) : st \in RuntimeStates}

PoiNext ==
    \/ RunDirect(PoiInputs)
    \/ SearchPoisAnswered(PoiResponses, TRUE)
    \/ QueryReviewsNode(ReviewResponsesSmall)
    \/ ShouldSearchHotelsEdge
    \/ SearchHotelsNode(HotelResponsesSmall)
    \/ PlanRouteNode(RouteResponsesSmall)
    \/ GenerateRecommendationNode
    \/ RunReturn
    \/ Discard

PoiSpec == Init /\ [][PoiNext]_vars

----------------------------------------------------------------------------
(* Runs whose routing calls fail or succeed with a well-formed route *)

\* per strategy: a request exception, an error status, an answer without a
\* route, and a route
RouteOutcomes ==
    [ walking |-> {[kind |-> "exception"],
                   Http([status |-> "0", info |-> "INVALID_USER_KEY"]),
                   Http([status |-> "1", route |-> [paths |-> <<>>]]),
                   Path(<<Step1>>)},
      transit |-> {[kind |-> "exception"],
                   Http([status |-> "0", info |-> "INVALID_USER_KEY"]),
                   Http([status |-> "1", route |-> [transits |-> <<>>]]),
                   Transit("5")},
      driving |-> {[kind |-> "exception"],
                   Http([status |-> "0", info |-> "INVALID_USER_KEY"]),
                   Http([status |-> "1", route |-> [paths |-> <<>>]]),
                   Path(<<Step1>>)} ]

LegNext ==
    \/ RunDirect(RunInputs)
    \/ SearchPoisNode(PoiResponsesRoute)
    \/ QueryReviewsNode(ReviewResponsesSmall)
    \/ ShouldSearchHotelsEdge
    \/ SearchHotelsNode(HotelResponsesSmall)
    \/ PlanRouteNode(RouteOutcomes)
    \/ GenerateRecommendationNode
    \/ RunReturn
    \/ Discard

LegSpec == Init /\ [][LegNext]_vars

----------------------------------------------------------------------------
(* Properties *)

\* the calls of this run to one external capability, in the order issued
CallsOf(api) == SelectSeq(calls, LAMBDA c : c.api = api)

IsPrefix(a, b) == Len(a) <= Len(b) /\ a = SubSeq(b, 1, Len(a))

Distinct(s) == \A i, j \in 1..Len(s) : i # j => s[i] # s[j]

StagesWithHotels ==
    <<"search_pois", "query_reviews", "search_hotels", "plan_route",
      "generate_recommendation">>
StagesWithoutHotels ==
    <<"search_pois", "query_reviews", "plan_route", "generate_recommendation">>

\* C1: in every run the stages entered so far are an initial part of
\* SearchPOIs, QueryReviews, [SearchHotels,] PlanRoute, GenerateRecommendation
\* (so each runs at most once, after its predecessor, and SearchHotels only
\* between QueryReviews and PlanRoute); the stage that runs next is the
\* successor of the last one; SearchHotels is entered exactly when the gate,
\* evaluated after QueryReviews, said search; and run returns only after
\* GenerateRecommendation.
C1_StageOrder ==
    /\ \/ IsPrefix(history, StagesWithHotels)
       \/ IsPrefix(history, StagesWithoutHotels)
    /\ gate # "" => Len(history) >= 2
    /\ "search_hotels" \in Range(history) => gate = "search_hotels"
    /\ ("plan_route" \in Range(history) /\ gate = "search_hotels")
           => "search_hotels" \in Range(history)
    /\ pc \in {"END", "done"} => history \in {StagesWithHotels, StagesWithoutHotels}
    /\ pc = "search_pois" => history = <<>>
    /\ pc \in {"query_reviews", "should_search_hotels"}
           => history = SubSeq(StagesWithHotels, 1, IF pc = "query_reviews" THEN 1 ELSE 2)
    /\ pc = "search_hotels" => history = SubSeq(StagesWithHotels, 1, 2)
    /\ pc = "plan_route"
           => history \in {SubSeq(StagesWithHotels, 1, 3), SubSeq(StagesWithoutHotels, 1, 2)}
    /\ pc = "generate_recommendation"
           => history \in {SubSeq(StagesWithHotels, 1, 4), SubSeq(StagesWithoutHotels, 1, 3)}

\* a run that went through all five stages and returned
C1_Witness ==
    /\ pc = "done"
    /\ history = StagesWithHotels
    /\ CallsOf("hotel_search") # <<>>

\* C2: whatever the external calls answer, no exception leaves run, and a
\* run that is over has returned a text
C2_NoExceptionPropagates ==
    /\ raised = ""
    /\ pc \in {"idle", "done"} \/ pc \in Range(StagesWithHotels) \cup {"should_search_hotels", "END"}
    /\ pc = "done" => returned # <<>>

\* C3: a run started with an empty city enters no stage and issues no call
C3_EmptyCityStopsBeforeSearch ==
    (pc # "idle" /\ city = "") => (history = <<>> /\ calls = <<>> /\ returned = <<>>)

\* C4: once SearchPOIs has left poi_results empty, the run goes on through
\* QueryReviews, the gate, PlanRoute and GenerateRecommendation and returns
\* the final_recommendation it has set.
C4_EmptyPoisStillFinish ==
    (pc = "query_reviews" /\ "poi_results" \in present /\ poi_results = <<>>)
    ~> (/\ pc = "done"
        /\ poi_results = <<>>
        /\ gate # ""
        /\ history \in {StagesWithHotels, StagesWithoutHotels}
        /\ "final_recommendation" \in present
        /\ final_recommendation # <<>>
        /\ returned = final_recommendation)

\* every POI call failed, every later lookup found nothing, and run returned
C4_Witness ==
    /\ pc = "done"
    /\ Len(CallsOf("poi_search")) >= 2
    /\ poi_results = <<>>
    /\ review_results = <<>>
    /\ history = StagesWithHotels
    /\ hotel_results = <<>>
    /\ returned = final_recommendation
    /\ returned # <<>>

\* C5: a run started by the get_structured_recommendations tool has the
\* preferences of the session whose round called the tool
C5_ToolRunUsesSessionPreferences ==
    (pc # "idle" /\ via \notin {"", "direct"})
    => LET preferences == heap[session_preferences[via]]
       IN  /\ travel_interests = preferences.travel_interests
           /\ transport_preference = preferences.transport_preference
           /\ travel_pace = preferences.travel_pace
           /\ budget_level = preferences.budget_level

\* the claim's condition for "search", read off the query as the user wrote it
WantsHotels(query) ==
    \/ ContainsAny(query, hotel_keywords)
    \/ /\ ContainsAny(query, travel_keywords)
       /\ ~ContainsAny(query, exclude_keywords)

\* C6: for every query the gate says search exactly when the query holds a
\* lodging keyword, or holds a trip-planning keyword and no exclusion keyword;
\* otherwise it says skip
C6_GateIffKeywords ==
    gate # "" =>
        /\ gate \in {"search_hotels", "skip_hotels"}
        /\ gate = "search_hotels" <=> WantsHotels(user_query)

\* a query with a trip-planning keyword and an exclusion keyword and no
\* lodging keyword (一日游玩) was skipped
C6_Witness ==
    /\ gate = "skip_hotels"
    /\ ContainsAny(user_query, travel_keywords)
    /\ ContainsAny(user_query, exclude_keywords)
    /\ ~ContainsAny(user_query, hotel_keywords)

\* C7: for 北京一日游不住宿 the gate says skip, SearchHotels is not entered and
\* no lodging call is issued
C7_DayTripSkipsHotels ==
    user_query = QueryDayTrip =>
        /\ gate \in {"", "skip_hotels"}
        /\ "search_hotels" \notin Range(history)
        /\ CallsOf("hotel_search") = <<>>

\* C8: the gate says search for 帮我规划北京3天行程 and for 推荐个酒店
C8_FixturesSearch ==
    /\ ShouldSearchHotels(QueryPlan) = "search_hotels"
    /\ ShouldSearchHotels(QueryHotel) = "search_hotels"
    /\ (user_query \in {QueryPlan, QueryHotel} /\ gate # "") => gate = "search_hotels"

\* the gate was evaluated on 推荐个酒店 and SearchHotels is next
C8_Witness ==
    /\ user_query = QueryHotel
    /\ gate = "search_hotels"
    /\ pc = "search_hotels"

PoiKeywords == [i \in 1..Len(CallsOf("poi_search")) |-> CallsOf("poi_search")[i].key]

\* C9: SearchPOIs issues at most 3 POI calls, for pairwise distinct keywords,
\* and with no interests set exactly the two calls for 景点 and 美食, in
\* this order
C9_KeywordCalls ==
    /\ Len(PoiKeywords) <= 3
    /\ Distinct(PoiKeywords)
    /\ ("search_pois" \in Range(history) /\ travel_interests = <<>>)
           => PoiKeywords = <<"jingdian", "meishi">>

\* SearchPOIs ran with no interests set and issued the default pair
C9_Witness ==
    /\ pc = "query_reviews"
    /\ travel_interests = <<>>
    /\ PoiKeywords = <<"jingdian", "meishi">>

\* C10: the review calls of a run are for entries among the first 5 of
\* poi_results, each for the name of its entry, in input order, so at most 5
C10_ReviewsFirstFive ==
    LET rc == CallsOf("review_search")
    IN  /\ Len(rc) <= 5
        /\ \A i \in 1..Len(rc) :
              /\ rc[i].n \in 1..5
              /\ rc[i].n <= Len(poi_results)
              /\ Get(poi_results[rc[i].n], "name", "") = rc[i].key
        /\ \A i, j \in 1..Len(rc) : i < j => rc[i].n < rc[j].n

\* QueryReviews ran on more than 5 POIs, one of which has a name that only
\* occurs after the fifth entry
C10_Witness ==
    /\ pc = "should_search_hotels"
    /\ Len(poi_results) > 5
    /\ Len(CallsOf("review_search")) >= 4
    /\ \E k \in 6..Len(poi_results) :
          /\ Truthy(Get(poi_results[k], "name", ""))
          /\ \A i \in 1..5 : Get(poi_results[i], "name", "") # poi_results[k].name

----------------------------------------------------------------------------
\* the markers of guide content: Day1 Day2 第一天 第二天 第三天 路线规划 行程安排 攻略
GuideMarkers ==
    { <<"D", "a", "y", "1">>, <<"D", "a", "y", "2">>,
      <<"di_ord", "yi", "tian">>, <<"di_ord", "er", "tian">>,
      <<"di_ord", "san", "tian">>, <<"lu", "xian", "gui", "hua">>,
      <<"xing", "cheng", "an", "pai">>, <<"gong", "lve">> }

ReviewCallFor(name) ==
    \E i \in 1..Len(calls) : calls[i].api = "review_search" /\ calls[i].key = name

----------------------------------------------------------------------------
\* C19: a POI whose lookup failed (search unavailable, search error, nothing
\* found) has no entry in review_results: every stored value is the text of
\* a search that found results, never a sentinel or an error message
C19_NoSentinelStored ==
    \A name \in DOMAIN review_results :
        /\ review_results[name][1] = "found_n_about"
        /\ review_results[name][1] \notin {"sorry", "not_found_about"}

----------------------------------------------------------------------------
Ran(node) == \E i \in 1..Len(history) : history[i] = node

\* the routing calls of this run
RouteCalls ==
    SelectSeq(calls, LAMBDA c : c.api \in {"route_walking", "route_transit",
                                           "route_driving"})

HasToken(text, t) == \E i \in 1..Len(text) : text[i] = t

\* C12: after PlanRoute on zero POIs route_info is the notice 无法规划路线 and
\* no routing call was issued; on exactly one POI it is the direct-visit
\* notice with that POI's name and address and no routing call was issued,
\* whatever the transport preference
C12_ShortRoutes ==
    (Ran("plan_route") /\ Len(poi_results) < 2) =>
        /\ RouteCalls = <<>>
        /\ "route_info" \in present
        /\ Len(poi_results) = 0 =>
              /\ HasToken(route_info, Tok("no_pois_cannot_plan_route", <<>>, 0))
              /\ ~HasToken(route_info, Tok("only_one_place_go_directly", <<>>, 0))
        /\ Len(poi_results) = 1 =>
              /\ HasToken(route_info, Tok("only_one_place_go_directly", <<>>, 0))
              /\ HasToken(route_info, Tok("place_name", <<Get(poi_results[1], "name", "unknown")>>, 0))
              /\ HasToken(route_info,
                          Tok("place_address",
                              <<Get(poi_results[1], "address", "unknown")>>, 0))
              /\ ~HasToken(route_info, Tok("no_pois_cannot_plan_route", <<>>, 0))

\* PlanRoute ran on exactly one POI for a traveller who drives
C12_Witness ==
    /\ Ran("plan_route")
    /\ Len(poi_results) = 1
    /\ transport_preference = "zijia"
    /\ pc = "generate_recommendation"

----------------------------------------------------------------------------
\* the POI has no usable coordinate: no location, or Gaode's [] for none
NoCoordinate(poi) == Get(poi, "location", "") \in {"", "[]"}

\* the first five POIs, the ones PlanRoute connects
Waypoints == Take(poi_results, 5)

LegSkipped(n) == NoCoordinate(Waypoints[n]) \/ NoCoordinate(Waypoints[n + 1])

\* the positions in route_info of the title of leg n
LegTitleAt(n) ==
    {i \in 1..Len(route_info) : route_info[i].k = "leg_title" /\ route_info[i].n = n}

NoticeAt ==
    {i \in 1..Len(route_info) : route_info[i] = Tok("missing_location", <<>>, 0)}

\* C13: under each strategy a leg whose origin or destination has no
\* coordinate gets no routing call and the notice 缺少位置信息, every other
\* leg is still planned with one call; so two POIs without coordinates give
\* exactly one notice and no routing call
C13_LegsWithoutCoordinates ==
    (Ran("plan_route") /\ Len(poi_results) >= 2) =>
        /\ \A n \in 1..(Len(Waypoints) - 1) :
              LegSkipped(n) => \A i \in 1..Len(RouteCalls) : RouteCalls[i].n # n
        /\ (pc # "raised") =>
              /\ "route_info" \in present
              /\ \A n \in 1..(Len(Waypoints) - 1) :
                    /\ Cardinality(LegTitleAt(n)) = 1
                    /\ LegSkipped(n) <=> \E i \in LegTitleAt(n) : (i + 1) \in NoticeAt
                    /\ ~LegSkipped(n) =>
                          Cardinality({i \in 1..Len(RouteCalls) : RouteCalls[i].n = n}) = 1
              /\ Cardinality(NoticeAt)
                    = Cardinality({n \in 1..(Len(Waypoints) - 1) : LegSkipped(n)})
              /\ (Len(poi_results) = 2 /\ LegSkipped(1)) =>
                    (Cardinality(NoticeAt) = 1 /\ RouteCalls = <<>>)

\* PlanRoute with the transit strategy finished on three places of which the
\* first has no coordinate: the first leg was skipped, the second was planned
C13_Witness ==
    /\ pc = "generate_recommendation"
    /\ Ran("plan_route")
    /\ transport_preference = "gongjiao"
    /\ Len(poi_results) = 3
    /\ LegSkipped(1) /\ ~LegSkipped(2)
    /\ Len(RouteCalls) = 1 /\ RouteCalls[1].api = "route_transit"

----------------------------------------------------------------------------
EmptyResults ==
    /\ poi_results = <<>> /\ review_results = <<>>
    /\ route_info = <<>> /\ hotel_results = <<>>

\* C14: GenerateRecommendation on a state whose poi_results, review_results,
\* route_info and hotel_results are all empty does not raise and sets
\* final_recommendation to a non-empty text that has the section headers and
\* lists no POI entry
C14_EmptyStateStillRecommends ==
    (EmptyResults /\ history # <<>>) =>
        /\ pc # "raised" /\ raised = ""
        /\ "final_recommendation" \in present
        /\ final_recommendation # <<>>
        /\ HasToken(final_recommendation, Tok("poi_section_header", <<>>, 0))
        /\ HasToken(final_recommendation, Tok("selected_n_places", <<>>, 0))
        /\ HasToken(final_recommendation, Tok("tips_header", <<>>, 0))
        /\ \A i \in 1..Len(final_recommendation) :
              final_recommendation[i].k # "poi_title"

\* the node returned from a state in which all four are empty and none of
\* their keys is in the dict
C14_Witness ==
    /\ EmptyResults /\ history = <<"generate_recommendation">>
    /\ present = {"final_recommendation"}
    /\ pc = "END"

\* C15: GenerateRecommendation run again on the state it returned sets the
\* same final_recommendation, and what it sets holds nothing of a
\* final_recommendation the state held before
C15_GenerateIdempotent ==
    [][(pc = "generate_recommendation" /\ pc' = "END") =>
          /\ history # <<>> => final_recommendation' = final_recommendation
          /\ ~HasToken(final_recommendation', StaleRecommendation[1])]_vars

\* the node ran twice on a state with places, a review, a route notice and a
\* hotel notice
C15_Witness ==
    /\ Len(history) = 2 /\ pc = "END"
    /\ Len(poi_results) = 2 /\ review_results # <<>>
    /\ route_info # <<>> /\ hotel_results # <<>>

----------------------------------------------------------------------------
Stages ==
    {"search_pois", "query_reviews", "search_hotels", "plan_route",
     "generate_recommendation"}

\* the output field of a stage
OutputOf(stage) ==
    CASE stage = "search_pois" -> "poi_results"
      [] stage = "query_reviews" -> "review_results"
      [] stage = "search_hotels" -> "hotel_results"
      [] stage = "plan_route" -> "route_info"
      [] stage = "generate_recommendation" -> "final_recommendation"

\* the running stage may write the field: it is its output and is not set yet
Written(field) == OutputOf(pc) = field /\ field \notin present

\* what a step of the running stage may do to the WorkflowState
StageWritesOwnField ==
    /\ user_query' = user_query /\ city' = city
    /\ travel_interests' = travel_interests
    /\ transport_preference' = transport_preference
    /\ travel_pace' = travel_pace /\ budget_level' = budget_level
    /\ present \subseteq present'
    /\ present' \subseteq present \cup {OutputOf(pc)}
    /\ Written("poi_results") \/ poi_results' = poi_results
    /\ Written("review_results") \/ review_results' = review_results
    /\ Written("hotel_results") \/ hotel_results' = hotel_results
    /\ Written("route_info") \/ route_info' = route_info
    /\ Written("final_recommendation") \/ final_recommendation' = final_recommendation

\* C16: a step of a stage leaves user_query, city and the preference fields
\* as they are, writes no output field but the stage's own, and changes no
\* output field that has been set
C16_StagesWriteOwnField == [][(pc \in Stages) => StageWritesOwnField]_vars

\* all five stages ran and each set its field to something
C16_Witness ==
    /\ pc = "END"
    /\ history = StagesWithHotels
    /\ poi_results # <<>> /\ review_results # <<>> /\ hotel_results # <<>>
    /\ route_info # <<>> /\ final_recommendation # <<>>

----------------------------------------------------------------------------
\* C18: no retries: within one run each search keyword, each reviewed POI
\* entry, the lodging lookup and each route leg is the subject of at most one
\* external call, also when that call fails
C18_NoRetries ==
    /\ \A i, j \in 1..Len(calls) :
          (i # j /\ calls[i].api = calls[j].api) =>
              /\ calls[i].n # calls[j].n
              /\ calls[i].api = "poi_search" => calls[i].key # calls[j].key
    /\ Len(CallsOf("hotel_search")) <= 1
    /\ \A i, j \in 1..Len(RouteCalls) : i # j => RouteCalls[i].n # RouteCalls[j].n

\* a run in which a keyword search, a review lookup, the lodging lookup and
\* a route leg all failed, and the run went on
C18_Witness ==
    /\ pc = "END"
    /\ Len(CallsOf("poi_search")) = 3 /\ Len(poi_results) = 1
    /\ Len(CallsOf("review_search")) = 1 /\ review_results = <<>>
    /\ Len(CallsOf("hotel_search")) = 1 /\ hotel_results = <<>>

----------------------------------------------------------------------------
\* final_recommendation of the run that differs from this one only in that
\* the gate selected skip: hotel_results is not in its state
RecommendationWhenSkipped ==
    Recommendation(poi_results, review_results, route_info, <<>>,
                   travel_interests, budget_level, travel_pace)

OffersListed == \E i \in 1..Len(hotel_results) : hotel_results[i].k = "hotel_header"

\* C20: whenever SearchHotels ran, hotel_results is set, and when the lookup
\* listed no offer (it failed, was unparsable or found nothing) the final
\* recommendation differs from the one of the same run with the gate on skip
C20_SearchedDiffersFromSkipped ==
    Ran("search_hotels") =>
        /\ "hotel_results" \in present
        /\ (pc = "END" /\ ~OffersListed) =>
              final_recommendation # RecommendationWhenSkipped

----------------------------------------------------------------------------
\* what run returns for the inputs of a frame when it is the only invocation,
\* in the environment of ConcurrentSpec
ReturnedAlone(frame) ==
    LET kws == SearchedKeywords(frame.travel_interests)
        pois == AllPois([i \in 1..Len(kws) |-> AnsweredPois], Len(kws))
        reviewed == ReviewedPois(pois)
        reviews == ReviewLoop(reviewed, frame.city,
                              [i \in 1..Len(reviewed) |-> AnsweredReview],
                              Len(reviewed)).rr
        hotels == IF ShouldSearchHotels(frame.user_query) = "search_hotels"
                  THEN HotelResultsOf(AigohotelData(AnsweredHotels), frame.city)
                  ELSE <<>>
        mode == Strategy(frame.transport_preference)
        selected == SelectedPois(pois)
        route == IF Len(pois) < 2 THEN ShortRouteInfo(pois)
                 ELSE <<Tok("route_detail_header", <<>>, 0),
                        Tok(StrategyHeader(frame.transport_preference), <<>>, 0)>>
                      \o RouteLoop(selected, mode,
                                   [i \in 1..(Len(selected) - 1) |-> AnsweredRoute[mode]],
                                   Len(selected) - 1).text
    IN  Recommendation(pois, reviews, route, hotels, frame.travel_interests,
                       frame.budget_level, frame.travel_pace)

\* C17: of two interleaved invocations each returns the final recommendation
\* it returns when it runs alone with the same inputs and the same answers:
\* neither reads or writes the WorkflowState of the other
C17_InterleavedRunsIsolated ==
    \A frame \in {Running, suspended} :
        /\ frame.pc = "done" => frame.returned = ReturnedAlone(frame)
        /\ frame.pc = "END" => frame.final_recommendation = ReturnedAlone(frame)

\* an invocation for 北京 has returned while another one, for 上海, is
\* suspended between two of its nodes
C17_Witness ==
    /\ pc = "done" /\ city = "beijing" /\ returned # <<>>
    /\ suspended.pc = "plan_route" /\ suspended.city = "shanghai"
    /\ suspended.poi_results # poi_results

----------------------------------------------------------------------------
\* C21: SearchHotels runs, and a lodging call is issued, if and only if the
\* gate returned search; when it returned skip there is no lodging call and
\* hotel_results is still unset when the run is done
C21_HotelsIffGate ==
    /\ Ran("search_hotels") =>
          (gate = "search_hotels" /\ Len(CallsOf("hotel_search")) = 1)
    /\ (gate = "search_hotels" /\ pc # "search_hotels") =>
          (Ran("search_hotels") /\ Len(CallsOf("hotel_search")) = 1)
    /\ ~Ran("search_hotels") => CallsOf("hotel_search") = <<>>
    /\ gate = "skip_hotels" =>
          /\ ~Ran("search_hotels")
          /\ CallsOf("hotel_search") = <<>>
          /\ "hotel_results" \notin present

\* a run whose gate returned skip is done, with a recommendation returned
C21_Witness ==
    /\ pc = "done" /\ gate = "skip_hotels"
    /\ Ran("generate_recommendation")
    /\ returned = final_recommendation /\ returned # <<>>

----------------------------------------------------------------------------
\* the exchange logged for the i-th POI call of the run
Answer(i) == CallsOf("poi_search")[i].args[2]

\* the list the provider sent with a successful answer; <<>> for a call that
\* failed (no key, exception, HTTP error, no JSON, no JSON object, error
\* status) or found nothing
ProviderPois(h) ==
    IF h.kind # "http" THEN <<>>
    ELSE IF h.code # 200 \/ ~h.json THEN <<>>
    ELSE IF "nondict" \in DOMAIN h.data THEN <<>>
    ELSE IF "status" \notin DOMAIN h.data \/ "pois" \notin DOMAIN h.data THEN <<>>
    ELSE IF h.data.status # "1" THEN <<>>
    ELSE h.data.pois

FirstThree(s) == [i \in 1..(IF Len(s) < 3 THEN Len(s) ELSE 3) |-> s[i]]

\* the first three results of calls 1..n, call after call
RECURSIVE FirstThreeOfEach(_)
FirstThreeOfEach(n) ==
    IF n = 0 THEN <<>>
    ELSE FirstThreeOfEach(n - 1) \o FirstThree(ProviderPois(Answer(n)))

\* C22: SearchPOIs issues one call per keyword for at most the first 3
\* keywords, and poi_results is, in keyword order, the first 3 results of each
\* successful call in the provider's order, entries that share a name
\* included; so it never holds more than 9 entries
C22_FirstThreeOfFirstThree ==
    Ran("search_pois") =>
        LET pcalls == CallsOf("poi_search")
        IN  /\ Len(pcalls) <= 3
            /\ \A i \in 1..Len(pcalls) : pcalls[i].n = i
            /\ \A i, j \in 1..Len(pcalls) : i # j => pcalls[i].key # pcalls[j].key
            /\ poi_results = FirstThreeOfEach(Len(pcalls))
            /\ Len(poi_results) <= 9

\* three calls were each answered with four places: poi_results holds the
\* first three of each, nine entries of which three share a name
C22_Witness ==
    /\ Ran("search_pois")
    /\ Len(CallsOf("poi_search")) = 3
    /\ \A i \in 1..3 : Len(ProviderPois(Answer(i))) = 4
    /\ Len(poi_results) = 9
    /\ poi_results[1] = poi_results[4] /\ poi_results[4] = poi_results[7]

----------------------------------------------------------------------------
\* the i-th POI call failed or found nothing
CallFailed(i) == ProviderPois(Answer(i)) = <<>>

\* the number of places the successful calls among calls 1..n contributed
RECURSIVE KeptUpTo(_)
KeptUpTo(n) ==
    IF n = 0 THEN 0
    ELSE KeptUpTo(n - 1)
         + (IF CallFailed(n) THEN 0 ELSE Len(FirstThree(ProviderPois(Answer(n)))))

\* C23: a POI call that fails (exception, error payload, error status, empty
\* result) adds nothing to poi_results and does not end the loop: every
\* keyword is still searched, and the places of the successful calls before
\* and after it are all kept
C23_FailedCallAddsNothing ==
    Ran("search_pois") =>
        LET pcalls == CallsOf("poi_search")
        IN  /\ Len(pcalls) = Len(Take(KeywordsToSearch(travel_interests), 3))
            /\ Len(poi_results) = KeptUpTo(Len(pcalls))
            /\ \A i \in 1..Len(pcalls) :
                  ~CallFailed(i) =>
                      LET kept == FirstThree(ProviderPois(Answer(i)))
                      IN  \A k \in 1..Len(kept) :
                              poi_results[KeptUpTo(i - 1) + k] = kept[k]

\* the second of three calls raised in requests.get; the places found by the
\* first and by the third call are in poi_results
C23_Witness ==
    /\ Ran("search_pois")
    /\ Len(CallsOf("poi_search")) = 3
    /\ Answer(2) = [kind |-> "exception"]
    /\ ~CallFailed(1) /\ ~CallFailed(3)
    /\ poi_results = FirstThree(ProviderPois(Answer(1)))
                     \o FirstThree(ProviderPois(Answer(3)))
    /\ Len(poi_results) = 4

----------------------------------------------------------------------------
\* the leg numbers of the leg titles in route_info, in the order of the text
LegTitles ==
    LET titles == SelectSeq(route_info, LAMBDA t : t.k = "leg_title")
    IN  [i \in 1..Len(titles) |-> titles[i].n]

\* the kind of the token that follows the title of leg n
AfterTitle(n) ==
    LET i == CHOOSE i \in LegTitleAt(n) : TRUE
    IN  IF i < Len(route_info) THEN route_info[i + 1].k ELSE "nothing"

RoutePlanned == {"walk_distance_m", "drive_distance_tenth_km", "plan"}

----------------------------------------------------------------------------
\* the capability a transport preference selects: 步行 walking, 公交 transit,
\* 自驾 driving, unset, mixed and anything else transit
PlannerFor(pref) ==
    IF pref = "buxing" THEN "route_walking"
    ELSE IF pref = "zijia" THEN "route_driving"
    ELSE "route_transit"

\* C25: for two or more POIs every routing call of the run goes to the one
\* strategy that transport_preference selects: walking, transit or driving,
\* and transit for an unset or mixed preference
C25_OneStrategyPerRun ==
    \A i \in 1..Len(RouteCalls) :
        /\ RouteCalls[i].api = PlannerFor(transport_preference)
        /\ transport_preference \in {NotSet, "hunhe"} =>
              RouteCalls[i].api = "route_transit"

\* PlanRoute finished for a traveller with the mixed preference: three legs,
\* three transit calls
C25_Witness ==
    /\ pc = "generate_recommendation"
    /\ transport_preference = "hunhe"
    /\ Len(RouteCalls) = 3
    /\ \A i \in 1..3 : RouteCalls[i].api = "route_transit"

----------------------------------------------------------------------------
MinOf(a, b) == IF a < b THEN a ELSE b

----------------------------------------------------------------------------
\* what the i-th review lookup of the run came to: whether its text was
\* accepted, and the text
Lookup(c) == ReviewOfCall(city, c.key, c.args[2])

\* the lookups made for a name, by their position in the log rc of review calls
LookupsFor(rc, name) == {i \in 1..Len(rc) : rc[i].key = name}

Accepted(rc, name) == {i \in LookupsFor(rc, name) : Lookup(rc[i]).stored}

MaxOfSet(S) == CHOOSE x \in S : \A y \in S : y <= x

\* C27: one review call is issued for each named entry among the first five
\* POIs, also when entries share a name, and review_results holds for a name
\* the text of the last accepted lookup made for it, and no entry for a name
\* without an accepted lookup
C27_LastWriteWins ==
    pc \in {"should_search_hotels", "search_hotels", "plan_route",
            "generate_recommendation", "END", "done"} =>
        LET rc == CallsOf("review_search")
        IN  /\ Len(rc) = Cardinality({i \in 1..MinOf(Len(poi_results), 5) :
                                         Get(poi_results[i], "name", "") # ""})
            /\ \A i \in 1..MinOf(Len(poi_results), 5) :
                  LET name == Get(poi_results[i], "name", "")
                      acc  == Accepted(rc, name)
                  IN  name # "" =>
                          /\ name \in DOMAIN review_results <=> acc # {}
                          /\ acc # {} =>
                                review_results[name] = Lookup(rc[MaxOfSet(acc)]).text
            /\ \A name \in DOMAIN review_results : LookupsFor(rc, name) # {}

\* two entries share a name, both lookups were accepted with different
\* texts, and the stored text is the one of the second
C27_Witness ==
    /\ pc = "should_search_hotels"
    /\ LET rc == CallsOf("review_search")
       IN  \E i, j \in 1..Len(rc) :
              /\ i < j
              /\ rc[i].key = rc[j].key
              /\ Lookup(rc[i]).stored /\ Lookup(rc[j]).stored
              /\ Lookup(rc[i]).text # Lookup(rc[j]).text
              /\ j = MaxOfSet(LookupsFor(rc, rc[j].key))
              /\ review_results[rc[j].key] = Lookup(rc[j]).text

----------------------------------------------------------------------------
\* the number of characters of a text: a token is one character, the
\* literal "..." is three
Characters(text) ==
    Len(text) + 2 * Cardinality({i \in 1..Len(text) : text[i] = "..."})

\* the review excerpts shown in the final recommendation
Excerpts ==
    {final_recommendation[i].a : i \in {j \in 1..Len(final_recommendation) :
                                           final_recommendation[j].k = "poi_review"}}

\* C28 as stated: the review excerpt shown for a POI in the final
\* recommendation is never longer than 150 characters
C28_ExcerptAtMost150 ==
    \A e \in Excerpts : Characters(e) <= MaxReviewSummary

\* C28, amended: a stored review of at most 150 characters is shown whole; a
\* longer one is shown as its first 150 characters followed by "...", which
\* is 153 characters, and no excerpt is longer than that
C28_ExcerptAtMost153 ==
    \A e \in Excerpts :
        /\ Characters(e) <= MaxReviewSummary + 3
        /\ \E name \in DOMAIN review_results :
              LET review == review_results[name]
              IN  IF Len(review) > MaxReviewSummary
                  THEN /\ Characters(e) = MaxReviewSummary + 3
                       /\ SubSeq(e, 1, MaxReviewSummary) = SubSeq(review, 1, MaxReviewSummary)
                       /\ e[Len(e)] = "..."
                  ELSE e = review

\* a review of 151 characters is stored and its excerpt is shown
C28_Witness ==
    /\ pc = "END"
    /\ \E name \in DOMAIN review_results : Len(review_results[name]) = MaxReviewSummary + 1
    /\ \E e \in Excerpts : Characters(e) = MaxReviewSummary + 3

----------------------------------------------------------------------------
\* the position of the first token of kind k in a text, 0 when there is none
PositionOf(text, k) ==
    IF \E i \in 1..Len(text) : text[i].k = k
    THEN CHOOSE i \in 1..Len(text) :
            text[i].k = k /\ \A j \in 1..(i - 1) : text[j].k # k
    ELSE 0

\* the tokens of kind k of a text, in their order
OfKind(text, k) == SelectSeq(text, LAMBDA t : t.k = k)

BudgetTip ==
    IF budget_level = "jingji" THEN <<Tok("tip_budget_economy", <<>>, 0)>>
    ELSE IF budget_level = "haohua" THEN <<Tok("tip_budget_luxury", <<>>, 0)>>
    ELSE <<>>

PaceTip ==
    IF travel_pace = "youxian" THEN <<Tok("tip_pace_relaxed", <<>>, 0)>>
    ELSE IF travel_pace = "jincou" THEN <<Tok("tip_pace_packed", <<>>, 0)>>
    ELSE <<>>

GenericTips ==
    <<Tok("tip_check_opening_hours", <<>>, 0), Tok("tip_use_live_navigation", <<>>, 0)>>

\* C29: final_recommendation is, in this order, the route information, the
\* hotel information when there is some, the POI listing numbered from 1 in
\* the order of poi_results, and the tips; the tips are the budget tip (only
\* for the economy and luxury levels), then the pace tip (only for the relaxed
\* and packed paces), then the two generic tips
C29_FixedOrder ==
    (history # <<>> /\ pc # "raised") =>
        LET f      == final_recommendation
            listing == PositionOf(f, "poi_section_header")
            tips    == PositionOf(f, "tips_header")
            route   == IF "route_info" \in present THEN route_info ELSE <<>>
            hotels  == IF "hotel_results" \in present THEN hotel_results ELSE <<>>
            pois    == IF "poi_results" \in present THEN poi_results ELSE <<>>
            titles  == OfKind(SubSeq(f, listing, tips), "poi_title")
        IN  /\ 0 < listing /\ listing < tips
            /\ SubSeq(f, 1, listing - 1) =
                  (IF route # <<>> THEN route \o <<Tok("nl", <<>>, 0)>> ELSE <<>>)
                  \o (IF hotels # <<>> THEN hotels \o <<Tok("nl", <<>>, 0)>> ELSE <<>>)
            /\ Len(OfKind(f, "poi_title")) = Len(pois)
            /\ Len(titles) = Len(pois)
            /\ \A i \in 1..Len(pois) :
                  titles[i] = Tok("poi_title", <<Get(pois[i], "name", "unknown")>>, i)
            /\ SubSeq(f, tips + 1, Len(f)) = BudgetTip \o PaceTip \o GenericTips

\* a recommendation with route, hotels, two places and all four tips
C29_Witness ==
    /\ pc = "END" /\ history # <<>>
    /\ route_info # <<>> /\ hotel_results # <<>>
    /\ Len(poi_results) = 2
    /\ budget_level = "haohua" /\ travel_pace = "jincou"
    /\ Len(final_recommendation)
          = PositionOf(final_recommendation, "tips_header") + 4

\* a recommendation for the comfort level and the moderate pace, with the two
\* generic tips only
C29_WitnessPlain ==
    /\ pc = "END" /\ history # <<>>
    /\ budget_level = "shushi" /\ travel_pace = "shizhong"
    /\ Len(final_recommendation)
          = PositionOf(final_recommendation, "tips_header") + 2

----------------------------------------------------------------------------
\* the star band sent for a budget level: [0.0, 3.0], [3.0, 4.5], [4.5, 5.0],
\* or none
BandSent ==
    IF budget_level = "jingji" THEN <<"0.0", "3.0">>
    ELSE IF budget_level = "shushi" THEN <<"3.0", "4.5">>
    ELSE IF budget_level = "haohua" THEN <<"4.5", "5.0">>
    ELSE <<>>

\* C30: a run issues at most one lodging call; once search_hotels has run
\* there is exactly one, for the run's city, for 1 night and at most 5
\* offers, with the star band of the budget level and no band for an unset
\* or any other level
C30_OneLodgingCall ==
    LET hc == CallsOf("hotel_search")
    IN  /\ Len(hc) <= 1
        /\ Ran("search_hotels") =>
              /\ Len(hc) = 1
              /\ hc[1].key = city
              /\ hc[1].args = <<"nights_1", "size_5">> \o BandSent

\* search_hotels has run for the economy level
C30_Witness ==
    /\ Ran("search_hotels")
    /\ budget_level = "jingji"
    /\ CallsOf("hotel_search")[1].args = <<"nights_1", "size_5", "0.0", "3.0">>

C30_WitnessComfort ==
    /\ Ran("search_hotels")
    /\ budget_level = "shushi"
    /\ CallsOf("hotel_search")[1].args = <<"nights_1", "size_5", "3.0", "4.5">>

C30_WitnessLuxury ==
    /\ Ran("search_hotels")
    /\ budget_level = "haohua"
    /\ CallsOf("hotel_search")[1].args = <<"nights_1", "size_5", "4.5", "5.0">>

C30_WitnessNoBand ==
    /\ Ran("search_hotels")
    /\ budget_level \notin {"jingji", "shushi", "haohua"}
    /\ CallsOf("hotel_search")[1].args = <<"nights_1", "size_5">>

----------------------------------------------------------------------------
(* The agent alone: sessions, rounds of get_response and the preference
   tool, with inputs that name a preference without any trigger word *)

PrefSessions == {"", "session_1", "session_2"}

\* 你好; 我想开车; 我想吃美食; 我喜欢开车; 公交; 改成自驾; an empty input
PrefInputs ==
    { <<"ni", "hao">>,
      <<"wo", "xiang", "kai", "che">>,
      <<"wo", "xiang", "chi", "mei", "shi_food">>,
      <<"wo", "xi", "huan", "kai", "che">>,
      <<"gong_public", "jiao">>,
      <<"gai", "cheng_become", "zi", "jia_drive">>,
      <<>> }

\* the model sets the transport through the preference tool
PrefToolArgs == {[transport_preference |-> "gongjiao"]}

PrefNext ==
    \/ CreateNewSession
    \/ GetResponseBegin(PrefSessions, PrefInputs)
    \/ ToolUpdateUserPreferences(PrefToolArgs)
    \/ GetResponseEnd

PrefSpec == Init /\ [][PrefNext]_vars

\* the stored preferences of a session in a manager state
StoredIn(prefs, h, sid) == h[prefs[sid]]

\* the preference fields of a preferences dict
PreferenceFields(p) ==
    <<p.travel_interests, p.transport_preference, p.travel_pace, p.budget_level,
      p.preferences_collected>>

\* C31: in get_response up to agent.invoke, a round whose input fails
\* should_update_preferences leaves travel_interests, transport_preference,
\* travel_pace, budget_level and preferences_collected of the session as they
\* were and only raises interaction_count by one, whatever preference words
\* the input names; so only a round whose input passes the test changes them
C31_ExtractionOnlyWhenAllowed ==
    [][\A given \in PrefSessions, user_input \in PrefInputs :
          (GetResponseOf(given, user_input) /\ ~should_update_preferences(user_input)) =>
              \* what get_session_preferences hands to the round: the stored
              \* dict, or fresh defaults for a session the call creates
              LET before == IF given # "" /\ given \in DOMAIN session_preferences
                            THEN StoredIn(session_preferences, heap, given)
                            ELSE get_default_preferences
                  after  == StoredIn(session_preferences', heap', round')
              IN  /\ PreferenceFields(after) = PreferenceFields(before)
                  /\ after.interaction_count = before.interaction_count + 1
                  /\ ~agent_state'.allow_pref_update]_vars

\* a second round of a session whose preferences were collected before, with
\* an input that fails the test: the transport stays 公交 / 自驾 as it was
C31_Witness ==
    /\ round # ""
    /\ ~agent_state.allow_pref_update
    /\ StoredIn(session_preferences, heap, round).interaction_count = 2
    /\ StoredIn(session_preferences, heap, round).preferences_collected
    /\ StoredIn(session_preferences, heap, round).transport_preference = "gongjiao"

----------------------------------------------------------------------------
\* C32: one run issues at most 3 POI-search calls, at most 5 review-search
\* calls, at most 1 lodging call and at most 4 routing calls, and so at most
\* 13 external calls, whatever the services answer
C32_AtMostThirteenCalls ==
    /\ Len(CallsOf("poi_search")) <= 3
    /\ Len(CallsOf("review_search")) <= 5
    /\ Len(CallsOf("hotel_search")) <= 1
    /\ Len(RouteCalls) <= 4
    /\ Len(calls) = Len(CallsOf("poi_search")) + Len(CallsOf("review_search"))
                    + Len(CallsOf("hotel_search")) + Len(RouteCalls)
    /\ Len(calls) <= 13

\* a run over six places that issued all 13 calls
C32_Witness ==
    /\ pc = "END"
    /\ Len(poi_results) = 6
    /\ Len(CallsOf("poi_search")) = 3
    /\ Len(CallsOf("review_search")) = 5
    /\ Len(CallsOf("hotel_search")) = 1
    /\ Len(RouteCalls) = 4
    /\ Len(calls) = 13

----------------------------------------------------------------------------
\* the interests of the run that the keyword map knows, in list order
Recognised ==
    SelectSeq(travel_interests,
              LAMBDA x : x \in {"lishiwenhua", "ziranfengguang", "meishitiyan",
                                "gouwuyule", "qinziyouwan", "yishuwenyi"})

\* the three keywords the map gives for an interest
KeywordsFor(interest) ==
    CASE interest = "lishiwenhua"    -> <<"bowuguan", "guji", "wenhuajiequ">>
      [] interest = "ziranfengguang" -> <<"gongyuan", "fengjingqu", "shanshui">>
      [] interest = "meishitiyan"    -> <<"meishi", "canting", "tesexiaochi">>
      [] interest = "gouwuyule"      -> <<"shangchang", "gouwuzhongxin", "yulechangsuo">>
      [] interest = "qinziyouwan"    -> <<"youleyuan", "dongwuyuan", "ertongleyuan">>
      [] interest = "yishuwenyi"     -> <<"meishuguan", "yishuguan", "juyuan">>

\* C33: when travel_interests holds a recognised interest, the POI calls of
\* SearchPOIs are the three keywords of the first recognised interest, in the
\* map's order; no call carries a keyword of a later, different interest, and
\* poi_results holds only places those three calls returned
C33_FirstInterestOnly ==
    (Ran("search_pois") /\ Recognised # <<>>) =>
        /\ PoiKeywords = KeywordsFor(Recognised[1])
        /\ \A i \in 2..Len(Recognised) :
              Recognised[i] # Recognised[1] =>
                  \A j \in 1..3 : ~HasToken(PoiKeywords, KeywordsFor(Recognised[i])[j])
        /\ poi_results = FirstThreeOfEach(3)

\* SearchPOIs ran for two different recognised interests, searched the
\* three keywords of the first and found a place with each
C33_Witness ==
    /\ Ran("search_pois")
    /\ Len(travel_interests) = 2
    /\ Len(Recognised) = 2 /\ Recognised[1] # Recognised[2]
    /\ PoiKeywords = KeywordsFor(travel_interests[1])
    /\ Len(poi_results) = 3

----------------------------------------------------------------------------
\* the query names 不住 or 不需要住宿
SaysNoLodging ==
    \/ Contains(user_query, <<"bu", "zhu">>)
    \/ Contains(user_query, <<"bu", "xu", "yao", "zhu", "su">>)

\* the query names 一日游 or 当天往返
SaysDayTrip ==
    \/ Contains(user_query, <<"yi", "ri", "you">>)
    \/ Contains(user_query, <<"dang", "tian", "wang", "fan_return">>)

\* the query holds one of 行程 规划 安排 旅游 游玩 旅行
SaysTrip ==
    \E kw \in { <<"xing", "cheng">>, <<"gui", "hua">>, <<"an", "pai">>, <<"lv", "you">>,
                <<"you", "wan">>, <<"lv", "xing">> } : Contains(user_query, kw)

\* C34: a query that contains 不住 or 不需要住宿 makes the gate return search,
\* with or without a trip-planning keyword; a query with a trip-planning
\* keyword is skipped only when it names 一日游 or 当天往返
C34_NoLodgingPhraseStillSearches ==
    gate # "" =>
        /\ SaysNoLodging => gate = "search_hotels"
        /\ (gate = "skip_hotels" /\ SaysTrip) => (SaysDayTrip /\ ~SaysNoLodging)

\* the lodging search ran for a trip query that says 不需要住宿
C34_Witness ==
    /\ Ran("search_hotels")
    /\ Contains(user_query, <<"bu", "xu", "yao", "zhu", "su">>)
    /\ SaysTrip

\* the lodging search ran for a query that says 不住 and names no trip
C34_WitnessNoTrip ==
    /\ Ran("search_hotels")
    /\ Contains(user_query, <<"bu", "zhu">>)
    /\ ~SaysTrip

\* a trip query with 当天往返 was skipped
C34_WitnessSkipped ==
    /\ gate = "skip_hotels"
    /\ SaysTrip
    /\ Contains(user_query, <<"dang", "tian", "wang", "fan_return">>)

----------------------------------------------------------------------------
\* the positions of the entry titles in the final recommendation, in order
TitlePositions ==
    SelectSeq([i \in 1..Len(final_recommendation) |-> i],
              LAMBDA i : final_recommendation[i].k = "poi_title")

\* the k-th entry of the listing shows a review excerpt: a review line stands
\* between its title and the next title (or the tips header)
ShowsReview(k) ==
    LET from == TitlePositions[k]
        to   == IF k < Len(TitlePositions) THEN TitlePositions[k + 1]
                ELSE PositionOf(final_recommendation, "tips_header")
    IN  \E i \in from..to : final_recommendation[i].k = "poi_review"

\* the name shown in the k-th entry is the name of one of the first five
\* places for which a review is stored
NamesReviewed(k) ==
    \E i \in 1..MinOf(Len(poi_results), 5) :
        /\ Get(poi_results[i], "name", "") # ""
        /\ Get(poi_results[i], "name", "") \in DOMAIN review_results
        /\ final_recommendation[TitlePositions[k]].a = <<Get(poi_results[i], "name", "")>>

\* C35: the listing has one numbered entry for every element of poi_results,
\* at most 9, and states that number; an entry after the fifth shows a review
\* excerpt exactly when the name it shows is the name of a reviewed place
\* among the first five
C35_ListingCoversAllPois ==
    (Ran("generate_recommendation") /\ pc # "raised") =>
        /\ Len(TitlePositions) = Len(poi_results)
        /\ Len(poi_results) <= 9
        /\ \A k \in 1..Len(TitlePositions) :
              final_recommendation[TitlePositions[k]].n = k
        /\ HasToken(final_recommendation,
                    Tok("selected_n_places", <<>>, Len(poi_results)))
        /\ \A k \in 6..Len(poi_results) : ShowsReview(k) <=> NamesReviewed(k)

\* a listing of more than five entries in which a later entry shows the
\* review of an earlier namesake and another later, named entry shows none
C35_Witness ==
    /\ pc = "END"
    /\ Len(poi_results) > 5
    /\ Len(CallsOf("review_search")) <= 5
    /\ \E k \in 6..Len(poi_results) : ShowsReview(k)
    /\ \E k \in 6..Len(poi_results) :
          /\ ~ShowsReview(k)
          /\ Get(poi_results[k], "name", "") # ""

----------------------------------------------------------------------------
(* The session manager as its callers may use it: the methods of
   TravelPlanningAgent and SessionManager called in any order between rounds,
   by a caller that keeps the dicts get_session_preferences returned *)

MaxDicts == 4

SessionIds == {"session_1", "session_2"}

\* get_session_preferences(session_id): the stored dict is returned, after
\* fresh defaults were stored for an unknown id
GetSessionPreferencesOf(session_id) ==
    /\ round = "" /\ pc = "idle"
    /\ session_id \in DOMAIN session_preferences \/ Len(heap) < MaxDicts
    /\ SetManager(get_session_preferences(Manager, session_id))
    /\ UNCHANGED <<temp_runtime_state, agent_state, round>>
    /\ UNCHANGED <<state_vars, run_vars, suspended>>

GetSessionPreferences(Sessions) ==
    \E session_id \in Sessions : GetSessionPreferencesOf(session_id)

\* ensure_session_exists(session_id)
EnsureSessionExistsOf(session_id) ==
    /\ round = "" /\ pc = "idle"
    /\ session_id \in DOMAIN session_preferences \/ Len(heap) < MaxDicts
    /\ SetManager(ensure_session_exists(Manager, session_id))
    /\ UNCHANGED <<temp_runtime_state, agent_state, round>>
    /\ UNCHANGED <<state_vars, run_vars, suspended>>

EnsureSessionExists(Sessions) ==
    \E session_id \in Sessions : EnsureSessionExistsOf(session_id)

\* update_session_preferences(session_id, preferences) with a dict the caller
\* got from get_session_preferences, for this session or for another one
UpdateSessionPreferences(Sessions) ==
    /\ round = "" /\ pc = "idle"
    /\ \E session_id \in Sessions, ref \in 1..Len(heap) :
          /\ \E other \in DOMAIN session_preferences : session_preferences[other] = ref
          /\ SetManager(update_session_preferences(Manager, session_id, ref))
    /\ UNCHANGED <<temp_runtime_state, agent_state, round>>
    /\ UNCHANGED <<state_vars, run_vars, suspended>>

\* the caller changes a field of the dict get_session_preferences returned
MutateReturned(Sessions, Budgets) ==
    /\ round = "" /\ pc = "idle"
    /\ \E session_id \in Sessions \cap DOMAIN session_preferences, budget \in Budgets :
          heap' = [heap EXCEPT ![session_preferences[session_id]].budget_level = budget]
    /\ UNCHANGED <<thread_id_counter, session_preferences, temp_runtime_state,
                   agent_state, round>>
    /\ UNCHANGED <<state_vars, run_vars, suspended>>

\* 你好; 公交
SessionInputs == {<<"ni", "hao">>, <<"gong_public", "jiao">>}

SessionNext ==
    \/ CreateNewSession
    \/ GetSessionPreferences(SessionIds)
    \/ EnsureSessionExists(SessionIds)
    \/ UpdateSessionPreferences(SessionIds)
    \/ MutateReturned(SessionIds, {"haohua"})
    \/ GetResponseBegin(SessionIds \cup {""}, SessionInputs)
    \/ ToolUpdateUserPreferences(PrefToolArgs)
    \/ GetResponseEnd

SessionSpec == Init /\ [][SessionNext]_vars

----------------------------------------------------------------------------
\* the sessions whose stored preferences a step changes
ChangedSessions ==
    {sid \in DOMAIN session_preferences :
        StoredIn(session_preferences', heap', sid) # StoredIn(session_preferences, heap, sid)}

\* C36: a step that changes the stored preferences of one session (a round of
\* get_response, a call of the manager, a change made in place to a dict that
\* get_session_preferences returned) leaves the stored preferences of every
\* other session as they were, and a session made by create_new_session
\* starts from the default preferences
C36_SessionsIsolated ==
    [][/\ Cardinality(ChangedSessions) <= 1
       /\ (thread_id_counter' # thread_id_counter /\ round' = "") =>
             StoredIn(session_preferences', heap', SessionId(thread_id_counter'))
                = get_default_preferences]_vars

----------------------------------------------------------------------------
\* the ids create_new_session has returned so far
ReturnedIds == {SessionId(k) : k \in 1..thread_id_counter}

====
